---- MODULE Spec2Model ----
(***************************************************************************)
(* Real-time messaging / notification gateway of the career-networking     *)
(* server (src/index.js) together with the REST message routes             *)
(* (src/routes/messages.js) and notification routes                        *)
(* (src/routes/notifications.js) that share the same stores.               *)
(*                                                                         *)
(* Strings that the code splits or joins on '_' are sequences of tokens:   *)
(* the conversation id "U1_U2" is <<"U1","U2">>, the room                  *)
(* "notifications_U2" is <<"notifications","U2">>, the private room of a   *)
(* socket is <<socket.id>>.  Message contents are sequences of characters. *)
(*                                                                         *)
(* Every `await` of a handler is two steps: the store executes the call    *)
(* (Db...), and later the handler resumes with the result (Resume...).     *)
(* Other handlers may run between the two.                                 *)
(***************************************************************************)
EXTENDS Integers, Sequences, FiniteSets, TLC

VARIABLES
    sockets,                 \* socket.id -> "none" | "connected" | "disconnected"
    rooms,                   \* socket.id -> set of rooms joined (besides <<socket.id>>)
    onlineUsers,             \* the Map userId -> socket.id, in insertion order
    messagesCollection,      \* sequence of Message documents
    notificationsCollection, \* sequence of Notification documents
    nextId,                  \* next ObjectId the store hands out
    tasks,                   \* the handlers suspended at an await, in order of arrival
    last,                    \* the handler invocation that took the latest step
    budget,                  \* asynchronous handlers that may still start
    faults,                  \* store calls that may still fail
    departed                 \* history: the users announced by a connection that has closed

vars == <<sockets, rooms, onlineUsers, messagesCollection,
          notificationsCollection, nextId, tasks, last, budget, faults, departed>>

(* ------------------------------ bounds --------------------------------- *)

\* asynchronous handler invocations (Gateway events and REST requests) in one
\* behaviour of Spec, where handlers interleave at every await
MaxTasks == 2
\* store calls that may fail in one behaviour of Spec
MaxFailures == 1
\* asynchronous handler invocations in one behaviour of SpecSession, where each
\* handler runs to its end before the next event arrives
MaxSessionTasks == 3
\* asynchronous handler invocations in one behaviour of SpecLive
MaxLiveTasks == 3

\* asynchronous handler invocations in one behaviour of SpecFrame
MaxFrameTasks == 2

\* asynchronous handler invocations in one behaviour of SpecHistory
MaxHistoryTasks == 2

\* asynchronous handler invocations in one behaviour of SpecStore
MaxStoreTasks == 2

\* user-online announcements in one behaviour of SpecRooms
MaxRoomTasks == 2

(* --------------------------- value domains ----------------------------- *)

SocketOrder == <<"s1", "s2", "s3">>
SocketIds == { SocketOrder[i] : i \in 1..Len(SocketOrder) }
UserIds == {"U1", "U2"}
NoSocket == ""
\* a string field that the payload or query does not have (undefined)
Absent == "undefined"
\* !x for a string field: undefined and '' are falsy
Falsy(x) == x \in {"", Absent}
NoId == 0
NoDate == -1
\* new Date(): the instant of a write
Now == 1

ConvU1U2 == <<"U1", "U2">>
ConvU2U1 == <<"U2", "U1">>
ConversationIds == {ConvU1U2, ConvU2U1}

(* ---------------------- conversation identifiers ------------------------ *)

\* the identities '/conversations/:userId' is applied to
Identities == {"", "U", "U1", "U10", "U2", "U3", "Z", "u1", "a"}

\* the UTF-16 code units of an identity
CodeUnits(id) ==
    CASE id = ""    -> <<>>
      [] id = "U"   -> <<85>>
      [] id = "U1"  -> <<85, 49>>
      [] id = "U10" -> <<85, 49, 48>>
      [] id = "U2"  -> <<85, 50>>
      [] id = "U3"  -> <<85, 51>>
      [] id = "Z"   -> <<90>>
      [] id = "u1"  -> <<117, 49>>
      [] id = "a"   -> <<97>>

\* x sorts before y: the default comparison of Array.prototype.sort, code unit
\* by code unit, a proper prefix first
RECURSIVE SortsBefore(_, _)
SortsBefore(x, y) ==
    IF y = <<>> THEN FALSE
    ELSE IF x = <<>> THEN TRUE
    ELSE IF Head(x) # Head(y) THEN Head(x) < Head(y)
    ELSE SortsBefore(Tail(x), Tail(y))

\* the pair as given, unsorted
JoinPair(a, b) == <<a, b>>

\* [a, b].sort().join('_')
CanonicalId(a, b) ==
    IF SortsBefore(CodeUnits(b), CodeUnits(a)) THEN <<b, a>> ELSE <<a, b>>

Hi == <<"h", "i">>
PaddedHi == <<" ", "h", "i", " ">>
\* the content of a payload that has none (undefined)
AbsentContent == <<"undefined">>

\* the documents of the users collection (uid, displayName)
usersCollection == { [uid |-> "U1", displayName |-> "Alice"],
                     [uid |-> "U2", displayName |-> ""],
                     [uid |-> "U3", displayName |-> "Carol"] }

\* the accepted connections of the connections collection
connectionsCollection ==
    { [senderId |-> "U1", receiverId |-> "U2", status |-> "accepted"],
      [senderId |-> "U3", receiverId |-> "U2", status |-> "accepted"] }

(* ------------------------ socket.io primitives ------------------------- *)

NotifRoom(userId) == <<"notifications", userId>>

\* the sockets a room currently holds
RoomMembers(room) ==
    { s \in SocketIds : sockets[s] = "connected" /\ (room = <<s>> \/ room \in rooms[s]) }

\* io.to(room).emit(event, data)
IoToEmit(room, event, data) ==
    [event |-> event, to |-> room, rcpt |-> RoomMembers(room), data |-> data]

\* an emission to the room that does not leave the sender out
RoomEmit(s, room, event, data) ==
    [event |-> event, to |-> room, rcpt |-> RoomMembers(room), data |-> data]

\* socket.to(room).emit(event, data)
SocketToEmit(s, room, event, data) ==
    [event |-> event, to |-> room, rcpt |-> RoomMembers(room) \ {s}, data |-> data]

\* socket.broadcast.emit(event, data)
BroadcastEmit(s, event, data) ==
    [event |-> event, to |-> <<"*">>,
     rcpt |-> { x \in SocketIds : sockets[x] = "connected" } \ {s}, data |-> data]

\* an emission to every connected socket
EmitToAll(s, event, data) ==
    [event |-> event, to |-> <<"*">>,
     rcpt |-> { x \in SocketIds : sockets[x] = "connected" }, data |-> data]

\* an emission that reaches its socket whether or not the socket is still open
EmitToClosed(s, event, data) ==
    [event |-> event, to |-> <<s>>, rcpt |-> {s}, data |-> data]

\* socket.emit(event, data)
SocketEmit(s, event, data) ==
    [event |-> event, to |-> <<s>>,
     rcpt |-> IF sockets[s] = "connected" THEN {s} ELSE {}, data |-> data]

(* ------------------------- the presence Map ---------------------------- *)

MapHas(map, k) == \E i \in 1..Len(map) : map[i].userId = k

\* the value of the first entry, whatever its key
MapGetFirst(map, k) == IF map # <<>> THEN map[1].socketId ELSE NoSocket

\* Map.prototype.get: the value, or undefined (NoSocket)
MapGet(map, k) ==
    IF MapHas(map, k)
    THEN (CHOOSE e \in { map[i] : i \in 1..Len(map) } : e.userId = k).socketId
    ELSE NoSocket

\* a set that keeps the value of an existing key
MapSetKeepFirst(map, k, v) ==
    IF MapHas(map, k) THEN map ELSE Append(map, [userId |-> k, socketId |-> v])

\* Map.prototype.set: an existing key keeps its place, a new key goes last
MapSet(map, k, v) ==
    IF MapHas(map, k)
    THEN [i \in 1..Len(map) |-> IF map[i].userId = k
                                THEN [userId |-> k, socketId |-> v] ELSE map[i]]
    ELSE Append(map, [userId |-> k, socketId |-> v])

\* a delete that removes nothing
MapDeleteNothing(map, k) == map

\* Map.prototype.delete
MapDelete(map, k) == SelectSeq(map, LAMBDA e : e.userId # k)

(* ------------------------------ stores --------------------------------- *)

\* notificationsCollection.countDocuments({ userId, read: false })
getUnreadCount(userId) ==
    Cardinality({ i \in 1..Len(notificationsCollection) :
                    /\ notificationsCollection[i].userId = userId
                    /\ ~notificationsCollection[i].read })

\* usersCollection.findOne({ uid }): the document, or null (NoUser)
NoUser == [uid |-> "", displayName |-> ""]
FindUser(uid) ==
    IF \E u \in usersCollection : u.uid = uid
    THEN CHOOSE u \in usersCollection : u.uid = uid
    ELSE NoUser

\* connectionsCollection.findOne({ $or: [{a -> b}, {b -> a}], status: 'accepted' })
FindConnection(a, b) ==
    \E c \in connectionsCollection :
        /\ c.status = "accepted"
        /\ \/ c.senderId = a /\ c.receiverId = b
           \/ c.senderId = b /\ c.receiverId = a

\* String.prototype.trim on a sequence of characters
RECURSIVE TrimLeft(_)
TrimLeft(str) ==
    IF str # <<>> /\ Head(str) = " " THEN TrimLeft(Tail(str)) ELSE str

RECURSIVE TrimRight(_)
TrimRight(str) ==
    IF str # <<>> /\ str[Len(str)] = " "
    THEN TrimRight(SubSeq(str, 1, Len(str) - 1)) ELSE str

Trim(str) == TrimRight(TrimLeft(str))

\* content.substring(0, 100) + (content.length > 100 ? '...' : '')
PreviewLen == 100
Preview(content) ==
    IF Len(content) > PreviewLen
    THEN SubSeq(content, 1, PreviewLen) \o <<".", ".", ".">>
    ELSE content

\* the document insertOne stores for a message object, with the _id it assigns
MessageDoc(id, conversationId, senderId, receiverId, content) ==
    [_id |-> id, conversationId |-> conversationId, senderId |-> senderId,
     receiverId |-> receiverId, content |-> content, timestamp |-> Now,
     read |-> FALSE, readAt |-> NoDate]

\* the notification a send-message builds for the receiver
NotificationDoc(id, data, sender) ==
    [_id |-> id, userId |-> data.receiverId, type |-> "new_message",
     message |-> Preview(data.content), senderId |-> data.senderId,
     senderName |-> IF sender.displayName # "" THEN sender.displayName ELSE "Someone",
     targetId |-> data.conversationId, read |-> FALSE, readAt |-> NoDate]

MarkReadFilterAnyReceiver(m, conversationId, userId) ==
    /\ m.conversationId = conversationId
    /\ ~m.read

\* messagesCollection.updateMany({ conversationId, receiverId: userId, read: false },
\*                               { $set: { read: true, readAt: new Date() } })
MarkReadFilter(m, conversationId, userId) ==
    /\ m.conversationId = conversationId
    /\ m.receiverId = userId
    /\ ~m.read

\* an update that stamps readAt and leaves read as it is
StampConversation(coll, conversationId, userId) ==
    [i \in 1..Len(coll) |->
        IF MarkReadFilter(coll[i], conversationId, userId)
        THEN [coll[i] EXCEPT !.readAt = Now]
        ELSE coll[i]]

MarkConversationRead(coll, conversationId, userId) ==
    [i \in 1..Len(coll) |->
        IF MarkReadFilter(coll[i], conversationId, userId)
        THEN [coll[i] EXCEPT !.read = TRUE, !.readAt = Now]
        ELSE coll[i]]

ModifiedCount(coll, conversationId, userId) ==
    Cardinality({ i \in 1..Len(coll) : MarkReadFilter(coll[i], conversationId, userId) })

\* notificationsCollection.updateMany({ userId, read: false },
\*                                    { $set: { read: true, readAt: new Date() } })
MarkAllNotificationsRead(coll, userId) ==
    [i \in 1..Len(coll) |->
        IF coll[i].userId = userId /\ ~coll[i].read
        THEN [coll[i] EXCEPT !.read = TRUE, !.readAt = Now]
        ELSE coll[i]]

(* ------------------------------ tasks ---------------------------------- *)

NoMessage == [_id |-> NoId]
NoNotification == [_id |-> NoId]
NoData == [none |-> TRUE]

\* a fresh handler invocation on socket s ("" for a REST request)
NewTask(kind, s, data, pc) ==
    [kind |-> kind, sock |-> s, data |-> data, pc |-> pc,
     message |-> NoMessage, notification |-> NoNotification,
     receiverSocketId |-> NoSocket, count |-> 0, modifiedCount |-> 0,
     returned |-> <<>>, out |-> <<>>, status |-> 0]

CanStart == budget > 0
CanFail == faults > 0

Idle == NewTask("idle", NoSocket, NoData, "done")

RemoveAt(seq, t) == [i \in 1..(Len(seq) - 1) |-> IF i < t THEN seq[i] ELSE seq[i + 1]]

\* an asynchronous handler starts and runs to its first await
Begin(rec) ==
    /\ CanStart
    /\ budget' = budget - 1
    /\ tasks' = Append(tasks, rec)
    /\ last' = rec

\* a suspended handler takes a step and stays suspended
Step(t, rec) ==
    /\ tasks' = [tasks EXCEPT ![t] = rec]
    /\ last' = rec
    /\ UNCHANGED budget

\* a suspended handler runs to its end
Finish(t, rec) ==
    /\ tasks' = RemoveAt(tasks, t)
    /\ last' = rec
    /\ UNCHANGED budget

\* a handler without an await runs from start to end
Sync(rec) ==
    /\ last' = rec
    /\ UNCHANGED <<tasks, budget>>

(* ------------------------------- Init ---------------------------------- *)
(* The process starts with no connection and an empty presence Map; the    *)
(* stores are durable and hold what earlier runs of the server wrote:      *)
(* three unread messages (one each way in "U1_U2", one that the Gateway    *)
(* stored under "U2_U1") and the unread notification of the first.         *)

InitialMessages ==
    << MessageDoc(1, ConvU1U2, "U1", "U2", Hi),
       MessageDoc(2, ConvU1U2, "U2", "U1", Hi),
       MessageDoc(3, ConvU2U1, "U1", "U2", Hi) >>

InitialNotifications ==
    << NotificationDoc(4, [conversationId |-> ConvU1U2, senderId |-> "U1",
                           receiverId |-> "U2", content |-> Hi], FindUser("U1")) >>

Start(tasksAllowed, faultsAllowed) ==
    /\ sockets = [s \in SocketIds |-> "none"]
    /\ rooms = [s \in SocketIds |-> {}]
    /\ onlineUsers = <<>>
    /\ messagesCollection = InitialMessages
    /\ notificationsCollection = InitialNotifications
    /\ nextId = Len(InitialMessages) + Len(InitialNotifications) + 1
    /\ tasks = <<>>
    /\ last = Idle
    /\ budget = tasksAllowed
    /\ faults = faultsAllowed
    /\ departed = {}

Init == Start(MaxTasks, MaxFailures)

(* -------------------------- connection events -------------------------- *)

\* io.on('connection'): socket.io hands out a fresh socket.id
Connect(s) ==
    /\ sockets[s] = "none"
    /\ \A i \in 1..Len(SocketOrder) :
          SocketOrder[i] = s => \A j \in 1..(i-1) : sockets[SocketOrder[j]] # "none"
    /\ sockets' = [sockets EXCEPT ![s] = "connected"]
    /\ Sync(NewTask("connection", s, NoData, "done"))
    /\ UNCHANGED <<departed, rooms, onlineUsers, messagesCollection, notificationsCollection,
                   nextId, faults>>

\* socket.on('user-online'), up to its await
UserOnline(s, userId) ==
    /\ sockets[s] = "connected"
    /\ onlineUsers' = MapSet(onlineUsers, userId, s)
    /\ rooms' = [rooms EXCEPT ![s] = @ \cup {NotifRoom(userId)}]
    /\ Begin([NewTask("user-online", s, [userId |-> userId], "count.wait")
                EXCEPT !.out = << BroadcastEmit(s, "user-status-changed",
                                     [userId |-> userId, status |-> "online"]) >>])
    /\ UNCHANGED <<departed, sockets, messagesCollection, notificationsCollection, nextId, faults>>

\* the store executes getUnreadCount(userId) of user-online
UserOnlineDbCount(t) ==
    /\ tasks[t].kind = "user-online" /\ tasks[t].pc = "count.wait"
    /\ \/ /\ Step(t, [tasks[t] EXCEPT !.pc = "count.ok",
                         !.count = getUnreadCount(tasks[t].data.userId)])
          /\ UNCHANGED faults
       \/ /\ CanFail
          /\ faults' = faults - 1
          /\ Step(t, [tasks[t] EXCEPT !.pc = "count.err"])
    /\ UNCHANGED <<departed, sockets, rooms, onlineUsers, messagesCollection,
                   notificationsCollection, nextId>>

\* user-online resumes: socket.emit('notification-count', count); the handler has
\* no try/catch, so a failed count ends it with an unhandled rejection
UserOnlineResume(t) ==
    /\ tasks[t].kind = "user-online" /\ tasks[t].pc \in {"count.ok", "count.err"}
    /\ IF tasks[t].pc = "count.ok"
       THEN Finish(t, [tasks[t] EXCEPT !.pc = "done",
               !.out = Append(@, SocketEmit(tasks[t].sock, "notification-count",
                                            tasks[t].count))])
       ELSE Finish(t, [tasks[t] EXCEPT !.pc = "rejected"])
    /\ UNCHANGED <<departed, sockets, rooms, onlineUsers, messagesCollection,
                   notificationsCollection, nextId, faults>>

\* socket.on('join-conversation')
JoinConversation(s, conversationId) ==
    /\ sockets[s] = "connected"
    /\ rooms' = [rooms EXCEPT ![s] = @ \cup {conversationId}]
    /\ Sync(NewTask("join-conversation", s, [conversationId |-> conversationId], "done"))
    /\ UNCHANGED <<departed, sockets, onlineUsers, messagesCollection, notificationsCollection,
                   nextId, faults>>

\* a leave that takes the socket out of every room
LeaveEveryRoom(s, conversationId) ==
    /\ sockets[s] = "connected"
    /\ rooms' = [rooms EXCEPT ![s] = {}]
    /\ Sync(NewTask("leave-conversation", s, [conversationId |-> conversationId], "done"))
    /\ UNCHANGED <<departed, sockets, onlineUsers, messagesCollection, notificationsCollection,
                   nextId, faults>>

\* socket.on('leave-conversation')
LeaveConversation(s, conversationId) ==
    /\ sockets[s] = "connected"
    /\ rooms' = [rooms EXCEPT ![s] = @ \ {conversationId}]
    /\ Sync(NewTask("leave-conversation", s, [conversationId |-> conversationId], "done"))
    /\ UNCHANGED <<departed, sockets, onlineUsers, messagesCollection, notificationsCollection,
                   nextId, faults>>

\* a typing handler that also registers its user
TypingRegisters(s, data) ==
    /\ sockets[s] = "connected"
    /\ onlineUsers' = MapSet(onlineUsers, data.userId, s)
    /\ Sync([NewTask("typing", s, data, "done")
               EXCEPT !.out = << SocketToEmit(s, data.conversationId, "user-typing",
                                    [userId |-> data.userId, isTyping |-> data.isTyping]) >>])
    /\ UNCHANGED <<departed, sockets, rooms, messagesCollection,
                   notificationsCollection, nextId, faults>>

\* socket.on('typing'): socket.to(conversationId).emit('user-typing', { userId, isTyping })
Typing(s, data) ==
    /\ sockets[s] = "connected"
    /\ Sync([NewTask("typing", s, data, "done")
               EXCEPT !.out = << SocketToEmit(s, data.conversationId, "user-typing",
                                    [userId |-> data.userId, isTyping |-> data.isTyping]) >>])
    /\ UNCHANGED <<departed, sockets, rooms, onlineUsers, messagesCollection,
                   notificationsCollection, nextId, faults>>

\* the first entry of the Map, whatever its value (0: the Map is empty)
FirstEntryOfAny(map, s) == IF map # <<>> THEN 1 ELSE 0

\* the first entry, in Map order, whose value is socket s (0: none)
FirstEntryOf(map, s) ==
    IF \E i \in 1..Len(map) : map[i].socketId = s
    THEN CHOOSE i \in 1..Len(map) :
            /\ map[i].socketId = s
            /\ \A j \in 1..(i-1) : map[j].socketId # s
    ELSE 0

\* the transport closes: socket.io empties the socket's rooms, then runs the
\* 'disconnect' handler: scan the Map, delete the first match, broadcast, break
Disconnect(s) ==
    LET i == FirstEntryOf(onlineUsers, s) IN
    /\ sockets[s] = "connected"
    /\ sockets' = [sockets EXCEPT ![s] = "disconnected"]
    /\ rooms' = [rooms EXCEPT ![s] = {}]
    /\ onlineUsers' = IF i = 0 THEN onlineUsers
                      ELSE MapDelete(onlineUsers, onlineUsers[i].userId)
    /\ LET afterClose == [sockets EXCEPT ![s] = "disconnected"] IN
       Sync([NewTask("disconnect", s, NoData, "done")
               EXCEPT !.out = IF i = 0 THEN <<>>
                              ELSE << [event |-> "user-status-changed", to |-> <<"*">>,
                                       rcpt |-> { x \in SocketIds :
                                                    afterClose[x] = "connected" },
                                       data |-> [userId |-> onlineUsers[i].userId,
                                                 status |-> "offline"]] >>])
    /\ departed' = departed \cup { u \in UserIds : NotifRoom(u) \in rooms[s] }
    /\ UNCHANGED <<messagesCollection, notificationsCollection, nextId, faults>>

(* ------------------------ Gateway: send-message ------------------------ *)
(* A continuation that touches only the handler's own locals is folded     *)
(* into the store step before it; a continuation that reads the presence   *)
(* Map or emits is a step of its own.                                      *)

\* a store call of handler t rejects; its continuation will see the error
DbFail(t, pc) ==
    /\ CanFail
    /\ faults' = faults - 1
    /\ Step(t, [tasks[t] EXCEPT !.pc = pc])

At(t, kind, pc) == tasks[t].kind = kind /\ tasks[t].pc = pc

\* socket.on('send-message'): destructure, build the message, call insertOne
SendMessage(s, data) ==
    /\ sockets[s] = "connected"
    /\ Begin(NewTask("send-message", s, data, "insertMessage.wait"))
    /\ UNCHANGED <<departed, sockets, rooms, onlineUsers, messagesCollection,
                   notificationsCollection, nextId, faults>>

\* the message with the two parties exchanged
GatewayMessageSwapped(id, data) ==
    MessageDoc(id, data.conversationId, data.receiverId, data.senderId, data.content)

\* the message the Gateway persists for a payload
GatewayMessage(id, data) ==
    MessageDoc(id, data.conversationId, data.senderId, data.receiverId, data.content)

\* messagesCollection.insertOne(message); then usersCollection.findOne is called
SendDbInsertMessage(t) ==
    /\ At(t, "send-message", "insertMessage.wait")
    /\ \/ /\ messagesCollection' = Append(messagesCollection,
                                          GatewayMessage(nextId, tasks[t].data))
          /\ nextId' = nextId + 1
          /\ Step(t, [tasks[t] EXCEPT !.pc = "findSender.wait",
                         !.message = GatewayMessage(nextId, tasks[t].data)])
          /\ UNCHANGED faults
       \/ /\ DbFail(t, "error")
          /\ UNCHANGED <<messagesCollection, nextId>>
    /\ UNCHANGED <<departed, sockets, rooms, onlineUsers, notificationsCollection>>

\* usersCollection.findOne({ uid: senderId }); then the notification is built and
\* notificationsCollection.insertOne is called; content.substring throws a
\* TypeError when the payload has no content, which the catch receives
SendDbFindSender(t) ==
    /\ At(t, "send-message", "findSender.wait")
    /\ \/ /\ Step(t, [tasks[t] EXCEPT !.pc = IF tasks[t].data.content = AbsentContent
                                              THEN "error"
                                              ELSE "insertNotification.wait"])
          /\ UNCHANGED faults
       \/ DbFail(t, "error")
    /\ UNCHANGED <<departed, sockets, rooms, onlineUsers, messagesCollection,
                   notificationsCollection, nextId>>

\* notificationsCollection.insertOne(notification)
SendDbInsertNotification(t) ==
    /\ At(t, "send-message", "insertNotification.wait")
    /\ \/ LET n == NotificationDoc(nextId, tasks[t].data,
                                   FindUser(tasks[t].data.senderId)) IN
          /\ notificationsCollection' = Append(notificationsCollection, n)
          /\ nextId' = nextId + 1
          /\ Step(t, [tasks[t] EXCEPT !.pc = "insertNotification.ok", !.notification = n])
          /\ UNCHANGED faults
       \/ /\ DbFail(t, "error")
          /\ UNCHANGED <<notificationsCollection, nextId>>
    /\ UNCHANGED <<departed, sockets, rooms, onlineUsers, messagesCollection>>

\* the room emission alone, without the confirmation to the sender
DeliverRoomOnly(rec) ==
    << IoToEmit(rec.data.conversationId, "receive-message", rec.message) >>

\* io.to(conversationId).emit('receive-message', message);
\* socket.emit('message-sent', message)
Deliver(rec) ==
    << IoToEmit(rec.data.conversationId, "receive-message", rec.message),
       SocketEmit(rec.sock, "message-sent", rec.message) >>

\* a continuation that runs only while the connection of its handler is open
SendNotifyIfConnected(t) ==
    LET rec == tasks[t]
        receiverSocketId == MapGet(onlineUsers, rec.data.receiverId) IN
    /\ At(t, "send-message", "insertNotification.ok")
    /\ sockets[rec.sock] = "connected"
    /\ IF receiverSocketId # NoSocket
       THEN Step(t, [rec EXCEPT !.pc = "count.wait",
                       !.receiverSocketId = receiverSocketId,
                       !.out = Append(@, IoToEmit(<<receiverSocketId>>,
                                                  "new-notification", rec.notification))])
       ELSE Finish(t, [rec EXCEPT !.pc = "done", !.out = @ \o Deliver(rec)])
    /\ UNCHANGED <<departed, sockets, rooms, onlineUsers, messagesCollection,
                   notificationsCollection, nextId, faults>>

\* the handler resumes after the notification insert: onlineUsers.get(receiverId);
\* with a handle, new-notification goes to it and getUnreadCount is awaited;
\* without one, the message is delivered and the handler ends
SendNotify(t) ==
    LET rec == tasks[t]
        receiverSocketId == MapGet(onlineUsers, rec.data.receiverId) IN
    /\ At(t, "send-message", "insertNotification.ok")
    /\ IF receiverSocketId # NoSocket
       THEN Step(t, [rec EXCEPT !.pc = "count.wait",
                       !.receiverSocketId = receiverSocketId,
                       !.out = Append(@, IoToEmit(<<receiverSocketId>>,
                                                  "new-notification", rec.notification))])
       ELSE Finish(t, [rec EXCEPT !.pc = "done", !.out = @ \o Deliver(rec)])
    /\ UNCHANGED <<departed, sockets, rooms, onlineUsers, messagesCollection,
                   notificationsCollection, nextId, faults>>

\* the store executes getUnreadCount(receiverId)
SendDbCount(t) ==
    /\ At(t, "send-message", "count.wait")
    /\ \/ /\ Step(t, [tasks[t] EXCEPT !.pc = "count.ok",
                         !.count = getUnreadCount(tasks[t].data.receiverId)])
          /\ UNCHANGED faults
       \/ DbFail(t, "error")
    /\ UNCHANGED <<departed, sockets, rooms, onlineUsers, messagesCollection,
                   notificationsCollection, nextId>>

\* the handler resumes with the count: notification-count to the receiver's
\* notification room, then the message is delivered
SendDeliver(t) ==
    LET rec == tasks[t] IN
    /\ At(t, "send-message", "count.ok")
    /\ Finish(t, [rec EXCEPT !.pc = "done",
                    !.out = Append(@, IoToEmit(NotifRoom(rec.data.receiverId),
                                               "notification-count", rec.count))
                            \o Deliver(rec)])
    /\ UNCHANGED <<departed, sockets, rooms, onlineUsers, messagesCollection,
                   notificationsCollection, nextId, faults>>

\* catch (error): socket.emit('message-error', ...)
SendCatch(t) ==
    /\ At(t, "send-message", "error")
    /\ Finish(t, [tasks[t] EXCEPT !.pc = "failed",
                    !.out = Append(@, SocketEmit(tasks[t].sock, "message-error",
                                                 "Failed to send message"))])
    /\ UNCHANGED <<departed, sockets, rooms, onlineUsers, messagesCollection,
                   notificationsCollection, nextId, faults>>

(* -------------------------- Gateway: mark-read ------------------------- *)

\* socket.on('mark-read'): call updateMany
MarkRead(s, data) ==
    /\ sockets[s] = "connected"
    /\ Begin(NewTask("mark-read", s, data, "updateMany.wait"))
    /\ UNCHANGED <<departed, sockets, rooms, onlineUsers, messagesCollection,
                   notificationsCollection, nextId, faults>>

\* the store executes the updateMany; a failure is only logged by the catch
MarkReadDbUpdate(t) ==
    LET rec == tasks[t] IN
    /\ At(t, "mark-read", "updateMany.wait")
    /\ \/ /\ messagesCollection' = MarkConversationRead(messagesCollection,
                                       rec.data.conversationId, rec.data.userId)
          /\ Step(t, [rec EXCEPT !.pc = "updateMany.ok",
                        !.modifiedCount = ModifiedCount(messagesCollection,
                                             rec.data.conversationId, rec.data.userId)])
          /\ UNCHANGED faults
       \/ /\ CanFail
          /\ faults' = faults - 1
          /\ Finish(t, [rec EXCEPT !.pc = "failed"])
          /\ UNCHANGED messagesCollection
    /\ UNCHANGED <<departed, sockets, rooms, onlineUsers, notificationsCollection, nextId>>

\* socket.to(conversationId).emit('messages-read', { userId })
MarkReadEmit(t) ==
    LET rec == tasks[t] IN
    /\ At(t, "mark-read", "updateMany.ok")
    /\ Finish(t, [rec EXCEPT !.pc = "done",
                    !.out = Append(@, SocketToEmit(rec.sock, rec.data.conversationId,
                                         "messages-read", [userId |-> rec.data.userId]))])
    /\ UNCHANGED <<departed, sockets, rooms, onlineUsers, messagesCollection,
                   notificationsCollection, nextId, faults>>

(* ----------------- Gateway: mark-all-notifications-read ---------------- *)

\* socket.on('mark-all-notifications-read'): call updateMany
MarkAllNotifications(s, userId) ==
    /\ sockets[s] = "connected"
    /\ Begin(NewTask("mark-all-notifications-read", s, [userId |-> userId],
                     "updateMany.wait"))
    /\ UNCHANGED <<departed, sockets, rooms, onlineUsers, messagesCollection,
                   notificationsCollection, nextId, faults>>

\* the store executes the updateMany; a failure is only logged by the catch
MarkAllDbUpdate(t) ==
    LET rec == tasks[t] IN
    /\ At(t, "mark-all-notifications-read", "updateMany.wait")
    /\ \/ /\ notificationsCollection' =
                MarkAllNotificationsRead(notificationsCollection, rec.data.userId)
          /\ Step(t, [rec EXCEPT !.pc = "updateMany.ok"])
          /\ UNCHANGED faults
       \/ /\ CanFail
          /\ faults' = faults - 1
          /\ Finish(t, [rec EXCEPT !.pc = "failed"])
          /\ UNCHANGED notificationsCollection
    /\ UNCHANGED <<departed, sockets, rooms, onlineUsers, messagesCollection, nextId>>

\* the count the handler emits after the update
MarkAllEmittedCount(userId) == 0

\* io.to(`notifications_${userId}`).emit('notification-count', 0)
MarkAllEmit(t) ==
    LET rec == tasks[t] IN
    /\ At(t, "mark-all-notifications-read", "updateMany.ok")
    /\ Finish(t, [rec EXCEPT !.pc = "done",
                    !.out = Append(@, IoToEmit(NotifRoom(rec.data.userId),
                                         "notification-count",
                                         MarkAllEmittedCount(rec.data.userId)))])
    /\ UNCHANGED <<departed, sockets, rooms, onlineUsers, messagesCollection,
                   notificationsCollection, nextId, faults>>

(* ----------------------------- REST: /send ----------------------------- *)

\* a REST request: no socket
Rest == NoSocket

\* a REST request answers at once with a status, before any await
Respond(kind, data, status) ==
    Sync([NewTask(kind, Rest, data, "done") EXCEPT !.status = status])

\* a REST request answers after its last await
Answer(t, status) == Finish(t, [tasks[t] EXCEPT !.pc = "done", !.status = status])

\* !conversationId || !senderId || !receiverId || !content?.trim()
MissingFields(data) ==
    \/ data.conversationId = <<>>
    \/ Falsy(data.senderId)
    \/ Falsy(data.receiverId)
    \/ data.content = AbsentContent
    \/ Trim(data.content) = <<>>

\* const [user1Id, user2Id] = conversationId.split('_');
\* !user1Id || !user2Id || user1Id === user2Id
InvalidConversationId(conversationId) ==
    \/ Len(conversationId) < 2
    \/ conversationId[1] = ""
    \/ conversationId[2] = ""
    \/ conversationId[1] = conversationId[2]

\* router.post('/send'): validate, then look both users up
RestSend(data) ==
    /\ IF MissingFields(data) \/ InvalidConversationId(data.conversationId)
       THEN Sync([NewTask("POST /send", Rest, data, "done") EXCEPT !.status = 400])
       ELSE Begin(NewTask("POST /send", Rest, data, "findUsers.wait"))
    /\ UNCHANGED <<departed, sockets, rooms, onlineUsers, messagesCollection,
                   notificationsCollection, nextId, faults>>

\* a store call of the request rejects: catch, respond 500
RestFail(t) ==
    /\ CanFail
    /\ faults' = faults - 1
    /\ Finish(t, [tasks[t] EXCEPT !.pc = "done", !.status = 500])

\* Promise.all of the two usersCollection.findOne; 404 unless both exist
RestSendDbFindUsers(t) ==
    LET rec == tasks[t] IN
    /\ At(t, "POST /send", "findUsers.wait")
    /\ \/ /\ IF FindUser(rec.data.senderId) = NoUser \/ FindUser(rec.data.receiverId) = NoUser
             THEN Finish(t, [rec EXCEPT !.pc = "done", !.status = 404])
             ELSE Step(t, [rec EXCEPT !.pc = "findConnection.wait"])
          /\ UNCHANGED faults
       \/ RestFail(t)
    /\ UNCHANGED <<departed, sockets, rooms, onlineUsers, messagesCollection,
                   notificationsCollection, nextId>>

\* connectionsCollection.findOne; 403 unless the two are connected
RestSendDbFindConnection(t) ==
    LET rec == tasks[t] IN
    /\ At(t, "POST /send", "findConnection.wait")
    /\ \/ /\ IF ~FindConnection(rec.data.senderId, rec.data.receiverId)
             THEN Finish(t, [rec EXCEPT !.pc = "done", !.status = 403])
             ELSE Step(t, [rec EXCEPT !.pc = "insertMessage.wait"])
          /\ UNCHANGED faults
       \/ RestFail(t)
    /\ UNCHANGED <<departed, sockets, rooms, onlineUsers, messagesCollection,
                   notificationsCollection, nextId>>

\* the message POST /send persists for a body
RestMessage(id, data) ==
    MessageDoc(id, data.conversationId, data.senderId, data.receiverId,
               Trim(data.content))

\* messagesCollection.insertOne(message); respond 201 with the message
RestSendDbInsertMessage(t) ==
    LET rec == tasks[t] IN
    /\ At(t, "POST /send", "insertMessage.wait")
    /\ \/ /\ messagesCollection' = Append(messagesCollection, RestMessage(nextId, rec.data))
          /\ nextId' = nextId + 1
          /\ Finish(t, [rec EXCEPT !.pc = "done", !.status = 201,
                          !.message = RestMessage(nextId, rec.data)])
          /\ UNCHANGED faults
       \/ /\ RestFail(t)
          /\ UNCHANGED <<messagesCollection, nextId>>
    /\ UNCHANGED <<departed, sockets, rooms, onlineUsers, notificationsCollection>>

(* --------------------------- REST: /mark-read -------------------------- *)

\* router.post('/mark-read'): 400 without conversationId or userId
RestMarkRead(data) ==
    /\ IF data.conversationId = <<>> \/ Falsy(data.userId)
       THEN Sync([NewTask("POST /mark-read", Rest, data, "done") EXCEPT !.status = 400])
       ELSE Begin(NewTask("POST /mark-read", Rest, data, "updateMany.wait"))
    /\ UNCHANGED <<departed, sockets, rooms, onlineUsers, messagesCollection,
                   notificationsCollection, nextId, faults>>

\* the store executes the updateMany; respond with modifiedCount
RestMarkReadDbUpdate(t) ==
    LET rec == tasks[t] IN
    /\ At(t, "POST /mark-read", "updateMany.wait")
    /\ \/ /\ messagesCollection' = MarkConversationRead(messagesCollection,
                                       rec.data.conversationId, rec.data.userId)
          /\ Finish(t, [rec EXCEPT !.pc = "done", !.status = 200,
                          !.modifiedCount = ModifiedCount(messagesCollection,
                                               rec.data.conversationId, rec.data.userId)])
          /\ UNCHANGED faults
       \/ /\ RestFail(t)
          /\ UNCHANGED messagesCollection
    /\ UNCHANGED <<departed, sockets, rooms, onlineUsers, notificationsCollection, nextId>>

(* ------------------- REST: /conversation/:conversationId --------------- *)

\* parseInt(req.query.limit) || 50
DefaultLimit == 50

\* const [user1Id, user2Id] = conversationId.split('_'): a missing part is undefined
Part(conversationId, i) ==
    IF i <= Len(conversationId) THEN conversationId[i] ELSE Absent

\* ![user1Id, user2Id].includes(userId)
AccessDenied(conversationId, userId) ==
    userId \notin {Part(conversationId, 1), Part(conversationId, 2)}

\* find({ conversationId, timestamp: { $lt: before } }).sort({ timestamp: -1 })
\*   .limit(limit).toArray(), reversed: the latest `limit` matches, oldest first
\* (the store keeps the messages in the order of their timestamps)
FindPage(coll, conversationId, before, limit) ==
    LET found == SelectSeq(coll, LAMBDA m : /\ m.conversationId = conversationId
                                            /\ m.timestamp < before) IN
    IF Len(found) <= limit THEN found
    ELSE SubSeq(found, Len(found) - limit + 1, Len(found))

\* router.get('/conversation/:conversationId'): 403 unless userId is a part of
\* the conversation id, then the find is called
RestHistory(data) ==
    /\ IF AccessDenied(data.conversationId, data.userId)
       THEN Respond("GET /conversation", data, 403)
       ELSE Begin(NewTask("GET /conversation", Rest, data, "find.wait"))
    /\ UNCHANGED <<departed, sockets, rooms, onlineUsers, messagesCollection,
                   notificationsCollection, nextId, faults>>

\* the store executes the find; with a userId the updateMany is called,
\* without one the page is the answer
RestHistoryDbFind(t) ==
    LET rec == tasks[t]
        page == FindPage(messagesCollection, rec.data.conversationId,
                         rec.data.before, rec.data.limit) IN
    /\ At(t, "GET /conversation", "find.wait")
    /\ \/ /\ IF Falsy(rec.data.userId)
             THEN Finish(t, [rec EXCEPT !.pc = "done", !.status = 200, !.returned = page])
             ELSE Step(t, [rec EXCEPT !.pc = "updateMany.wait", !.returned = page])
          /\ UNCHANGED faults
       \/ RestFail(t)
    /\ UNCHANGED <<departed, sockets, rooms, onlineUsers, messagesCollection,
                   notificationsCollection, nextId>>

\* an update that marks only the messages of the page that was found
RestHistoryDbUpdatePage(t) ==
    LET rec == tasks[t]
        onPage(m) == \E j \in 1..Len(rec.returned) : rec.returned[j]._id = m._id IN
    /\ At(t, "GET /conversation", "updateMany.wait")
    /\ \/ /\ messagesCollection' =
                [i \in 1..Len(messagesCollection) |->
                    IF /\ MarkReadFilter(messagesCollection[i], rec.data.conversationId,
                                         rec.data.userId)
                       /\ onPage(messagesCollection[i])
                    THEN [messagesCollection[i] EXCEPT !.read = TRUE, !.readAt = Now]
                    ELSE messagesCollection[i]]
          /\ Answer(t, 200)
          /\ UNCHANGED faults
       \/ /\ RestFail(t)
          /\ UNCHANGED messagesCollection
    /\ UNCHANGED <<departed, sockets, rooms, onlineUsers, notificationsCollection, nextId>>

\* the store executes the updateMany of the fetch; the page is the answer
RestHistoryDbUpdate(t) ==
    LET rec == tasks[t] IN
    /\ At(t, "GET /conversation", "updateMany.wait")
    /\ \/ /\ messagesCollection' = MarkConversationRead(messagesCollection,
                                       rec.data.conversationId, rec.data.userId)
          /\ Answer(t, 200)
          /\ UNCHANGED faults
       \/ /\ RestFail(t)
          /\ UNCHANGED messagesCollection
    /\ UNCHANGED <<departed, sockets, rooms, onlineUsers, notificationsCollection, nextId>>

(* -------------------- REST: /search/:conversationId -------------------- *)

\* .limit(100)
SearchLimit == 100

\* $options: 'i': letters compare without case
LowerCase(ch) ==
    CASE ch = "H" -> "h"
      [] ch = "I" -> "i"
      [] OTHER -> ch

Lowered(str) == [i \in 1..Len(str) |-> LowerCase(str[i])]

\* content: { $regex: query }: the query, a plain word, occurs in the content
Contains(content, query) ==
    \E i \in 1..(Len(content) - Len(query) + 1) :
        Lowered(SubSeq(content, i, i + Len(query) - 1)) = Lowered(query)

\* find({ conversationId, content: { $regex, $options: 'i' } })
\*   .sort({ timestamp: -1 }).limit(100).toArray(): latest first
FindMatches(coll, conversationId, query) ==
    LET found == SelectSeq(coll, LAMBDA m : /\ m.conversationId = conversationId
                                            /\ m.content # AbsentContent
                                            /\ Contains(m.content, query))
        latest == IF Len(found) <= SearchLimit THEN found
                  ELSE SubSeq(found, Len(found) - SearchLimit + 1, Len(found)) IN
    [i \in 1..Len(latest) |-> latest[Len(latest) + 1 - i]]

\* router.get('/search/:conversationId'): 400 without a query, 403 unless
\* userId is a part of the conversation id, then the find is called
RestSearch(data) ==
    /\ IF data.query = AbsentContent \/ Trim(data.query) = <<>>
       THEN Respond("GET /search", data, 400)
       ELSE IF AccessDenied(data.conversationId, data.userId)
       THEN Respond("GET /search", data, 403)
       ELSE Begin(NewTask("GET /search", Rest, data, "find.wait"))
    /\ UNCHANGED <<departed, sockets, rooms, onlineUsers, messagesCollection,
                   notificationsCollection, nextId, faults>>

\* the store executes the find; the matches are the answer
RestSearchDbFind(t) ==
    LET rec == tasks[t] IN
    /\ At(t, "GET /search", "find.wait")
    /\ \/ /\ Finish(t, [rec EXCEPT !.pc = "done", !.status = 200,
                          !.returned = FindMatches(messagesCollection,
                                          rec.data.conversationId, Trim(rec.data.query))])
          /\ UNCHANGED faults
       \/ RestFail(t)
    /\ UNCHANGED <<departed, sockets, rooms, onlineUsers, messagesCollection,
                   notificationsCollection, nextId>>

(* ---------------------- REST: /message/:messageId ---------------------- *)

\* messagesCollection.findOne({ _id }): the index of the message (0: null)
FindMessage(coll, id) ==
    IF \E i \in 1..Len(coll) : coll[i]._id = id
    THEN CHOOSE i \in 1..Len(coll) : coll[i]._id = id
    ELSE 0

\* a check that lets everyone pass
NotSenderNever(message, userId) == FALSE

\* message.senderId !== userId
NotSender(message, userId) == message.senderId # userId

\* messagesCollection.deleteOne({ _id })
DeleteMessage(coll, id) == SelectSeq(coll, LAMBDA m : m._id # id)

\* router.delete('/message/:messageId'): 400 unless the id is an ObjectId (NoId
\* stands for a string that is none), then the findOne is called
RestDelete(data) ==
    /\ IF data.messageId = NoId
       THEN Respond("DELETE /message", data, 400)
       ELSE Begin(NewTask("DELETE /message", Rest, data, "findOne.wait"))
    /\ UNCHANGED <<departed, sockets, rooms, onlineUsers, messagesCollection,
                   notificationsCollection, nextId, faults>>

\* the store executes the findOne: 404 without the message, 403 unless userId
\* is its sender, else the deleteOne is called
RestDeleteDbFind(t) ==
    LET rec == tasks[t]
        i == FindMessage(messagesCollection, rec.data.messageId) IN
    /\ At(t, "DELETE /message", "findOne.wait")
    /\ \/ /\ IF i = 0 THEN Answer(t, 404)
             ELSE IF NotSender(messagesCollection[i], rec.data.userId) THEN Answer(t, 403)
             ELSE Step(t, [rec EXCEPT !.pc = "deleteOne.wait"])
          /\ UNCHANGED faults
       \/ RestFail(t)
    /\ UNCHANGED <<departed, sockets, rooms, onlineUsers, messagesCollection,
                   notificationsCollection, nextId>>

\* the store executes the deleteOne: 404 when it deleted nothing
RestDeleteDbDelete(t) ==
    LET rec == tasks[t] IN
    /\ At(t, "DELETE /message", "deleteOne.wait")
    /\ \/ /\ messagesCollection' = DeleteMessage(messagesCollection, rec.data.messageId)
          /\ Answer(t, IF FindMessage(messagesCollection, rec.data.messageId) = 0
                       THEN 404 ELSE 200)
          /\ UNCHANGED faults
       \/ /\ RestFail(t)
          /\ UNCHANGED messagesCollection
    /\ UNCHANGED <<departed, sockets, rooms, onlineUsers, notificationsCollection, nextId>>

(* ------------------ notifications: one, and clear-all ------------------ *)

\* a filter on the _id alone
AnyNotification(n, id, userId) == n._id = id

\* the filter { _id: new ObjectId(notificationId), userId }
OwnNotification(n, id, userId) == n._id = id /\ n.userId = userId

\* the filter matches a document of the collection
MatchesOne(coll, id, userId) ==
    \E i \in 1..Len(coll) : OwnNotification(coll[i], id, userId)

\* notificationsCollection.updateOne(filter, { $set: { read: true, readAt: new Date() } })
MarkOneNotificationRead(coll, id, userId) ==
    [i \in 1..Len(coll) |->
        IF OwnNotification(coll[i], id, userId)
        THEN [coll[i] EXCEPT !.read = TRUE, !.readAt = Now]
        ELSE coll[i]]

\* notificationsCollection.deleteOne(filter)
DeleteOneNotification(coll, id, userId) ==
    SelectSeq(coll, LAMBDA n : ~OwnNotification(n, id, userId))

\* notificationsCollection.deleteMany({ userId })
ClearNotifications(coll, userId) == SelectSeq(coll, LAMBDA n : n.userId # userId)

\* socket.on('mark-notification-read'): new ObjectId(notificationId) throws on a
\* string that is no ObjectId (NoId) and the catch logs it; else updateOne is called
MarkNotification(s, data) ==
    /\ sockets[s] = "connected"
    /\ IF data.notificationId = NoId
       THEN Sync(NewTask("mark-notification-read", s, data, "invalid"))
       ELSE Begin(NewTask("mark-notification-read", s, data, "updateOne.wait"))
    /\ UNCHANGED <<departed, sockets, rooms, onlineUsers, messagesCollection,
                   notificationsCollection, nextId, faults>>

\* the store executes the updateOne; then getUnreadCount is called
MarkNotificationDbUpdate(t) ==
    LET rec == tasks[t] IN
    /\ At(t, "mark-notification-read", "updateOne.wait")
    /\ \/ /\ notificationsCollection' = MarkOneNotificationRead(notificationsCollection,
                                            rec.data.notificationId, rec.data.userId)
          /\ Step(t, [rec EXCEPT !.pc = "count.wait"])
          /\ UNCHANGED faults
       \/ /\ CanFail
          /\ faults' = faults - 1
          /\ Finish(t, [rec EXCEPT !.pc = "failed"])
          /\ UNCHANGED notificationsCollection
    /\ UNCHANGED <<departed, sockets, rooms, onlineUsers, messagesCollection, nextId>>

\* the store executes getUnreadCount(userId)
MarkNotificationDbCount(t) ==
    LET rec == tasks[t] IN
    /\ At(t, "mark-notification-read", "count.wait")
    /\ \/ /\ Step(t, [rec EXCEPT !.pc = "count.ok",
                        !.count = getUnreadCount(rec.data.userId)])
          /\ UNCHANGED faults
       \/ /\ CanFail
          /\ faults' = faults - 1
          /\ Finish(t, [rec EXCEPT !.pc = "failed"])
    /\ UNCHANGED <<departed, sockets, rooms, onlineUsers, messagesCollection,
                   notificationsCollection, nextId>>

\* io.to(`notifications_${userId}`).emit('notification-count', count)
MarkNotificationEmit(t) ==
    LET rec == tasks[t] IN
    /\ At(t, "mark-notification-read", "count.ok")
    /\ Finish(t, [rec EXCEPT !.pc = "done",
                    !.out = Append(@, IoToEmit(NotifRoom(rec.data.userId),
                                               "notification-count", rec.count))])
    /\ UNCHANGED <<departed, sockets, rooms, onlineUsers, messagesCollection,
                   notificationsCollection, nextId, faults>>

\* router.put('/mark-read/:notificationId') and router.delete('/:notificationId'):
\* 400 unless the id is an ObjectId, then updateOne or deleteOne is called
RestNotification(kind, data) ==
    /\ kind \in {"PUT /mark-read", "DELETE /notification"}
    /\ IF data.notificationId = NoId
       THEN Respond(kind, data, 400)
       ELSE Begin(NewTask(kind, Rest, data, "writeOne.wait"))
    /\ UNCHANGED <<departed, sockets, rooms, onlineUsers, messagesCollection,
                   notificationsCollection, nextId, faults>>

\* the store executes the updateOne or the deleteOne: 404 when it matched
\* nothing, else countDocuments is called
RestNotificationDbWrite(t) ==
    LET rec == tasks[t]
        id == rec.data.notificationId
        userId == rec.data.userId IN
    /\ tasks[t].kind \in {"PUT /mark-read", "DELETE /notification"}
    /\ tasks[t].pc = "writeOne.wait"
    /\ \/ /\ notificationsCollection' =
                IF rec.kind = "PUT /mark-read"
                THEN MarkOneNotificationRead(notificationsCollection, id, userId)
                ELSE DeleteOneNotification(notificationsCollection, id, userId)
          /\ IF MatchesOne(notificationsCollection, id, userId)
             THEN Step(t, [rec EXCEPT !.pc = "count.wait", !.modifiedCount = 1])
             ELSE Answer(t, 404)
          /\ UNCHANGED faults
       \/ /\ RestFail(t)
          /\ UNCHANGED notificationsCollection
    /\ UNCHANGED <<departed, sockets, rooms, onlineUsers, messagesCollection, nextId>>

\* the store executes the countDocuments; the count is the answer
RestNotificationDbCount(t) ==
    LET rec == tasks[t] IN
    /\ tasks[t].kind \in {"PUT /mark-read", "DELETE /notification"}
    /\ tasks[t].pc = "count.wait"
    /\ \/ /\ Finish(t, [rec EXCEPT !.pc = "done", !.status = 200,
                          !.count = getUnreadCount(rec.data.userId)])
          /\ UNCHANGED faults
       \/ RestFail(t)
    /\ UNCHANGED <<departed, sockets, rooms, onlineUsers, messagesCollection,
                   notificationsCollection, nextId>>

\* router.delete('/clear-all/:userId'): deleteMany is called
RestClearAll(userId) ==
    /\ Begin(NewTask("DELETE /clear-all", Rest, [userId |-> userId], "deleteMany.wait"))
    /\ UNCHANGED <<departed, sockets, rooms, onlineUsers, messagesCollection,
                   notificationsCollection, nextId, faults>>

\* the store executes the deleteMany; deletedCount is the answer
RestClearAllDbDelete(t) ==
    LET rec == tasks[t] IN
    /\ At(t, "DELETE /clear-all", "deleteMany.wait")
    /\ \/ /\ notificationsCollection' =
                ClearNotifications(notificationsCollection, rec.data.userId)
          /\ Finish(t, [rec EXCEPT !.pc = "done", !.status = 200,
                          !.modifiedCount = Len(notificationsCollection)
                              - Len(ClearNotifications(notificationsCollection,
                                                       rec.data.userId))])
          /\ UNCHANGED faults
       \/ /\ RestFail(t)
          /\ UNCHANGED notificationsCollection
    /\ UNCHANGED <<departed, sockets, rooms, onlineUsers, messagesCollection, nextId>>

(* ------------------------------ inputs --------------------------------- *)

SendPayload(conversationId, senderId, receiverId, content) ==
    [conversationId |-> conversationId, senderId |-> senderId,
     receiverId |-> receiverId, content |-> content]

SendPayloads ==
    { SendPayload(ConvU1U2, "U1", "U2", Hi),
      SendPayload(ConvU1U2, "U2", "U1", PaddedHi) }

MarkReadPayloads ==
    { [conversationId |-> ConvU1U2, userId |-> "U2"],
      [conversationId |-> ConvU1U2, userId |-> "U1"] }

(* --------------------------- specifications ---------------------------- *)

Tasks == 1..Len(tasks)

\* the connection of Spec: the store races do not depend on who is connected
Clients == {"s1"}

\* Spec: every handler of the Gateway and of the REST routes, interleaved at
\* every await
Next ==
    \/ \E s \in Clients : Connect(s)
    \/ \E s \in Clients, u \in UserIds : UserOnline(s, u)
    \/ \E t \in Tasks : UserOnlineDbCount(t)
    \/ \E t \in Tasks : UserOnlineResume(t)
    \/ \E s \in Clients, c \in {ConvU1U2} : JoinConversation(s, c)
    \/ \E s \in Clients, c \in {ConvU1U2} : LeaveConversation(s, c)
    \/ \E s \in Clients : Disconnect(s)
    \/ \E s \in Clients, d \in SendPayloads : SendMessage(s, d)
    \/ \E t \in Tasks : SendDbInsertMessage(t)
    \/ \E t \in Tasks : SendDbFindSender(t)
    \/ \E t \in Tasks : SendDbInsertNotification(t)
    \/ \E t \in Tasks : SendNotify(t)
    \/ \E t \in Tasks : SendDbCount(t)
    \/ \E t \in Tasks : SendDeliver(t)
    \/ \E t \in Tasks : SendCatch(t)
    \/ \E s \in Clients, d \in MarkReadPayloads : MarkRead(s, d)
    \/ \E t \in Tasks : MarkReadDbUpdate(t)
    \/ \E t \in Tasks : MarkReadEmit(t)
    \/ \E s \in Clients, u \in UserIds : MarkAllNotifications(s, u)
    \/ \E t \in Tasks : MarkAllDbUpdate(t)
    \/ \E t \in Tasks : MarkAllEmit(t)
    \/ \E d \in SendPayloads : RestSend(d)
    \/ \E t \in Tasks : RestSendDbFindUsers(t)
    \/ \E t \in Tasks : RestSendDbFindConnection(t)
    \/ \E t \in Tasks : RestSendDbInsertMessage(t)
    \/ \E d \in MarkReadPayloads : RestMarkRead(d)
    \/ \E t \in Tasks : RestMarkReadDbUpdate(t)

Spec == Init /\ [][Next]_vars

\* SpecSession: the presence scenarios. Three connections announce, join,
\* send U1's "hi" to U2 and disconnect; every event arrives after the handler
\* of the one before it has ended, and no store call fails.
InitSession == Start(MaxSessionTasks, 0)

Quiet == tasks = <<>>

NextSession ==
    \/ \E s \in SocketIds : Quiet /\ Connect(s)
    \/ \E s \in SocketIds, u \in UserIds : Quiet /\ UserOnline(s, u)
    \/ \E t \in Tasks : UserOnlineDbCount(t)
    \/ \E t \in Tasks : UserOnlineResume(t)
    \/ \E s \in SocketIds, c \in {ConvU1U2} : Quiet /\ JoinConversation(s, c)
    \/ \E s \in SocketIds : Quiet /\ Disconnect(s)
    \/ \E s \in SocketIds : Quiet /\ SendMessage(s, SendPayload(ConvU1U2, "U1", "U2", Hi))
    \/ \E t \in Tasks : SendDbInsertMessage(t)
    \/ \E t \in Tasks : SendDbFindSender(t)
    \/ \E t \in Tasks : SendDbInsertNotification(t)
    \/ \E t \in Tasks : SendNotify(t)
    \/ \E t \in Tasks : SendDbCount(t)
    \/ \E t \in Tasks : SendDeliver(t)

SpecSession == InitSession /\ [][NextSession]_vars

\* router.get('/conversations/:userId'), line 58: the conversation id of the
\* requesting user and one partner
ConversationIdFor ==
    /\ last.kind = "GET /conversations" /\ last.pc = "partner"
    /\ last' = [last EXCEPT !.pc = "done",
                   !.data = [@ EXCEPT !.conversationId =
                                CanonicalId(last.data.userId, last.data.partner)]]
    /\ UNCHANGED <<sockets, rooms, onlineUsers, messagesCollection,
                   notificationsCollection, nextId, tasks, budget, faults, departed>>

\* SpecCanonical: the conversation id of every pair of identities
InitCanonical ==
    /\ sockets = [s \in SocketIds |-> "none"]
    /\ rooms = [s \in SocketIds |-> {}]
    /\ onlineUsers = <<>>
    /\ messagesCollection = InitialMessages
    /\ notificationsCollection = InitialNotifications
    /\ nextId = Len(InitialMessages) + Len(InitialNotifications) + 1
    /\ tasks = <<>>
    /\ budget = 0
    /\ faults = 0
    /\ departed = {}
    /\ \E a \in Identities, b \in Identities :
          last = NewTask("GET /conversations", Rest,
                         [userId |-> a, partner |-> b, conversationId |-> <<>>], "partner")

NextCanonical == ConversationIdFor

SpecCanonical == InitCanonical /\ [][NextCanonical]_vars

\* SpecStore: every operation on the two stores, by the Gateway and by the
\* REST routes, with payloads that are well-formed, incomplete, not canonical
\* or sent by an outsider; one request at a time, one store call may fail.
InitStore == Start(MaxStoreTasks, MaxFailures)

\* new Date() as the default of `before`: later than every stored timestamp
Later == Now + 1

StoreSends ==
    { SendPayload(ConvU1U2, "U1", "U2", Hi),
      SendPayload(ConvU1U2, "U2", "U1", PaddedHi),
      SendPayload(ConvU2U1, "U1", "U2", Hi),
      SendPayload(ConvU1U2, "U3", "U2", Hi),
      SendPayload(ConvU1U2, "U1", "U2", AbsentContent) }

StoreMarkReads ==
    { [conversationId |-> ConvU1U2, userId |-> "U2"],
      [conversationId |-> ConvU1U2, userId |-> "U3"] }

StoreFetches ==
    { [conversationId |-> ConvU1U2, userId |-> "U2", before |-> Later, limit |-> DefaultLimit],
      [conversationId |-> ConvU1U2, userId |-> "U3", before |-> Later, limit |-> DefaultLimit],
      [conversationId |-> <<"U1">>, userId |-> Absent, before |-> Later, limit |-> 1] }

StoreSearches ==
    { [conversationId |-> ConvU1U2, userId |-> "U1", query |-> <<"H">>],
      [conversationId |-> ConvU1U2, userId |-> "U3", query |-> <<"h">>],
      [conversationId |-> ConvU1U2, userId |-> "U1", query |-> <<" ">>] }

StoreDeletes ==
    { [messageId |-> 1, userId |-> "U1"],
      [messageId |-> 1, userId |-> "U2"],
      [messageId |-> NoId, userId |-> "U1"] }

StoreNotifications ==
    { [notificationId |-> 4, userId |-> "U2"],
      [notificationId |-> 4, userId |-> "U1"],
      [notificationId |-> NoId, userId |-> "U2"] }

NextStore ==
    \/ \E s \in Clients : Connect(s)
    \/ \E s \in Clients, d \in StoreSends : Quiet /\ SendMessage(s, d)
    \/ \E t \in Tasks : SendDbInsertMessage(t)
    \/ \E t \in Tasks : SendDbFindSender(t)
    \/ \E t \in Tasks : SendDbInsertNotification(t)
    \/ \E t \in Tasks : SendNotify(t)
    \/ \E t \in Tasks : SendCatch(t)
    \/ \E s \in Clients, d \in StoreMarkReads : Quiet /\ MarkRead(s, d)
    \/ \E t \in Tasks : MarkReadDbUpdate(t)
    \/ \E t \in Tasks : MarkReadEmit(t)
    \/ \E s \in Clients, d \in StoreNotifications : Quiet /\ MarkNotification(s, d)
    \/ \E t \in Tasks : MarkNotificationDbUpdate(t)
    \/ \E t \in Tasks : MarkNotificationDbCount(t)
    \/ \E t \in Tasks : MarkNotificationEmit(t)
    \/ \E d \in StoreSends : Quiet /\ RestSend(d)
    \/ \E t \in Tasks : RestSendDbFindUsers(t)
    \/ \E t \in Tasks : RestSendDbFindConnection(t)
    \/ \E t \in Tasks : RestSendDbInsertMessage(t)
    \/ \E d \in StoreMarkReads : Quiet /\ RestMarkRead(d)
    \/ \E t \in Tasks : RestMarkReadDbUpdate(t)
    \/ \E d \in StoreFetches : Quiet /\ RestHistory(d)
    \/ \E t \in Tasks : RestHistoryDbFind(t)
    \/ \E t \in Tasks : RestHistoryDbUpdate(t)
    \/ \E d \in StoreSearches : Quiet /\ RestSearch(d)
    \/ \E t \in Tasks : RestSearchDbFind(t)
    \/ \E d \in StoreDeletes : Quiet /\ RestDelete(d)
    \/ \E t \in Tasks : RestDeleteDbFind(t)
    \/ \E t \in Tasks : RestDeleteDbDelete(t)
    \/ \E k \in {"PUT /mark-read", "DELETE /notification"}, d \in StoreNotifications :
          Quiet /\ RestNotification(k, d)
    \/ \E t \in Tasks : RestNotificationDbWrite(t)
    \/ \E t \in Tasks : RestNotificationDbCount(t)
    \/ \E u \in UserIds : Quiet /\ RestClearAll(u)
    \/ \E t \in Tasks : RestClearAllDbDelete(t)

SpecStore == InitStore /\ [][NextStore]_vars

\* SpecRooms: room membership and presence of three connections. They connect,
\* announce, join and leave the two conversation rooms, send typing events and
\* disconnect; every event arrives after the handler of the one before it has
\* ended, and no store call fails.
InitRooms == Start(MaxRoomTasks, 0)

TypingPayloads ==
    { [conversationId |-> ConvU1U2, userId |-> "U1", isTyping |-> b] : b \in BOOLEAN }

NextRooms ==
    \/ \E s \in SocketIds : Quiet /\ Connect(s)
    \/ \E s \in SocketIds, u \in UserIds : Quiet /\ UserOnline(s, u)
    \/ \E t \in Tasks : UserOnlineDbCount(t)
    \/ \E t \in Tasks : UserOnlineResume(t)
    \/ \E s \in SocketIds, c \in ConversationIds : Quiet /\ JoinConversation(s, c)
    \/ \E s \in SocketIds, c \in ConversationIds : Quiet /\ LeaveConversation(s, c)
    \/ \E s \in SocketIds, d \in TypingPayloads : Quiet /\ Typing(s, d)
    \/ \E s \in SocketIds : Quiet /\ Disconnect(s)

SpecRooms == InitRooms /\ [][NextRooms]_vars

\* SpecLive: two connections announce and send U1's "hi" to U2, each event
\* arriving when no handler is suspended, and they disconnect at any moment,
\* also while a handler is suspended at a store call; no store call fails. The
\* store answers every call and the event loop runs every continuation that is
\* ready, so each step of a suspended handler is weakly fair; the arrival of
\* events is not.
InitLive == Start(MaxLiveTasks, 0)

LiveClients == {"s1", "s2"}

LivePayload == SendPayload(ConvU1U2, "U1", "U2", Hi)

NextLive ==
    \/ \E s \in LiveClients : Connect(s)
    \/ \E s \in LiveClients, u \in UserIds : Quiet /\ UserOnline(s, u)
    \/ \E t \in Tasks : UserOnlineDbCount(t)
    \/ \E t \in Tasks : UserOnlineResume(t)
    \/ \E s \in LiveClients : Disconnect(s)
    \/ \E s \in LiveClients : Quiet /\ SendMessage(s, LivePayload)
    \/ \E t \in Tasks : SendDbInsertMessage(t)
    \/ \E t \in Tasks : SendDbFindSender(t)
    \/ \E t \in Tasks : SendDbInsertNotification(t)
    \/ \E t \in Tasks : SendNotify(t)
    \/ \E t \in Tasks : SendDbCount(t)
    \/ \E t \in Tasks : SendDeliver(t)

Fairness ==
    /\ WF_vars(\E t \in Tasks : UserOnlineDbCount(t))
    /\ WF_vars(\E t \in Tasks : UserOnlineResume(t))
    /\ WF_vars(\E t \in Tasks : SendDbInsertMessage(t))
    /\ WF_vars(\E t \in Tasks : SendDbFindSender(t))
    /\ WF_vars(\E t \in Tasks : SendDbInsertNotification(t))
    /\ WF_vars(\E t \in Tasks : SendNotify(t))
    /\ WF_vars(\E t \in Tasks : SendDbCount(t))
    /\ WF_vars(\E t \in Tasks : SendDeliver(t))

SpecLive == InitLive /\ [][NextLive]_vars /\ Fairness

\* SpecFrame: every handler of the Gateway and every REST route of the two
\* routers, on two connections. Connections close at any moment, also while a
\* handler is suspended at a store call; the other events and the requests
\* arrive when no handler is suspended.
InitFrame == Start(MaxFrameTasks, MaxFailures)

FrameSend == SendPayload(ConvU1U2, "U1", "U2", Hi)
FrameMarkRead == [conversationId |-> ConvU1U2, userId |-> "U2"]
FrameNotification == [notificationId |-> 4, userId |-> "U2"]
FrameFetch ==
    [conversationId |-> ConvU1U2, userId |-> "U2", before |-> Later, limit |-> DefaultLimit]
FrameSearch == [conversationId |-> ConvU1U2, userId |-> "U1", query |-> <<"h">>]
FrameDelete == [messageId |-> 1, userId |-> "U1"]

NextFrame ==
    \/ \E s \in LiveClients : Quiet /\ Connect(s)
    \/ \E s \in LiveClients, u \in UserIds : Quiet /\ UserOnline(s, u)
    \/ \E t \in Tasks : UserOnlineDbCount(t)
    \/ \E t \in Tasks : UserOnlineResume(t)
    \/ \E s \in LiveClients : Disconnect(s)
    \/ \E s \in LiveClients : Quiet /\ JoinConversation(s, ConvU1U2)
    \/ \E s \in LiveClients : Quiet /\ LeaveConversation(s, ConvU1U2)
    \/ \E s \in LiveClients, d \in TypingPayloads : Quiet /\ Typing(s, d)
    \/ \E s \in LiveClients : Quiet /\ SendMessage(s, FrameSend)
    \/ \E t \in Tasks : SendDbInsertMessage(t)
    \/ \E t \in Tasks : SendDbFindSender(t)
    \/ \E t \in Tasks : SendDbInsertNotification(t)
    \/ \E t \in Tasks : SendNotify(t)
    \/ \E t \in Tasks : SendDbCount(t)
    \/ \E t \in Tasks : SendDeliver(t)
    \/ \E t \in Tasks : SendCatch(t)
    \/ \E s \in LiveClients : Quiet /\ MarkRead(s, FrameMarkRead)
    \/ \E t \in Tasks : MarkReadDbUpdate(t)
    \/ \E t \in Tasks : MarkReadEmit(t)
    \/ \E s \in LiveClients : Quiet /\ MarkNotification(s, FrameNotification)
    \/ \E t \in Tasks : MarkNotificationDbUpdate(t)
    \/ \E t \in Tasks : MarkNotificationDbCount(t)
    \/ \E t \in Tasks : MarkNotificationEmit(t)
    \/ \E s \in LiveClients : Quiet /\ MarkAllNotifications(s, "U2")
    \/ \E t \in Tasks : MarkAllDbUpdate(t)
    \/ \E t \in Tasks : MarkAllEmit(t)
    \/ Quiet /\ RestSend(FrameSend)
    \/ \E t \in Tasks : RestSendDbFindUsers(t)
    \/ \E t \in Tasks : RestSendDbFindConnection(t)
    \/ \E t \in Tasks : RestSendDbInsertMessage(t)
    \/ Quiet /\ RestMarkRead(FrameMarkRead)
    \/ \E t \in Tasks : RestMarkReadDbUpdate(t)
    \/ Quiet /\ RestHistory(FrameFetch)
    \/ \E t \in Tasks : RestHistoryDbFind(t)
    \/ \E t \in Tasks : RestHistoryDbUpdate(t)
    \/ Quiet /\ RestSearch(FrameSearch)
    \/ \E t \in Tasks : RestSearchDbFind(t)
    \/ Quiet /\ RestDelete(FrameDelete)
    \/ \E t \in Tasks : RestDeleteDbFind(t)
    \/ \E t \in Tasks : RestDeleteDbDelete(t)
    \/ \E k \in {"PUT /mark-read", "DELETE /notification"} :
          Quiet /\ RestNotification(k, FrameNotification)
    \/ \E t \in Tasks : RestNotificationDbWrite(t)
    \/ \E t \in Tasks : RestNotificationDbCount(t)
    \/ Quiet /\ RestClearAll("U2")
    \/ \E t \in Tasks : RestClearAllDbDelete(t)

SpecFrame == InitFrame /\ [][NextFrame]_vars

\* SpecHistory: history fetches of "U1_U2" by U2, whole, limited to one message
\* and with a `before` that precedes every message, interleaved at every await
\* with Gateway and REST sends of U1's "hi" to U2; store calls may fail.
InitHistory == Start(MaxHistoryTasks, MaxFailures)

HistoryFetches ==
    { [conversationId |-> ConvU1U2, userId |-> "U2", before |-> Later, limit |-> DefaultLimit],
      [conversationId |-> ConvU1U2, userId |-> "U2", before |-> Later, limit |-> 1],
      [conversationId |-> ConvU1U2, userId |-> "U2", before |-> Now, limit |-> DefaultLimit] }

NextHistory ==
    \/ \E s \in Clients : Connect(s)
    \/ \E s \in Clients : SendMessage(s, FrameSend)
    \/ \E t \in Tasks : SendDbInsertMessage(t)
    \/ \E t \in Tasks : SendDbFindSender(t)
    \/ \E t \in Tasks : SendDbInsertNotification(t)
    \/ \E t \in Tasks : SendNotify(t)
    \/ \E t \in Tasks : SendCatch(t)
    \/ RestSend(FrameSend)
    \/ \E t \in Tasks : RestSendDbFindUsers(t)
    \/ \E t \in Tasks : RestSendDbFindConnection(t)
    \/ \E t \in Tasks : RestSendDbInsertMessage(t)
    \/ \E d \in HistoryFetches : RestHistory(d)
    \/ \E t \in Tasks : RestHistoryDbFind(t)
    \/ \E t \in Tasks : RestHistoryDbUpdate(t)

SpecHistory == InitHistory /\ [][NextHistory]_vars

(* ------------------------------ claims --------------------------------- *)

\* the emissions of one event in a handler's output
EventsOf(rec, event) == { i \in 1..Len(rec.out) : rec.out[i].event = event }

\* the step just taken is the successful insertOne of a send
GatewayInserted == last.kind = "send-message" /\ last.pc = "findSender.wait"
RestInserted == last.kind = "POST /send" /\ last.status = 201
SendKinds == {"send-message", "POST /send"}

\* the step stored exactly the one message m = last'.message, unread, under a
\* fresh _id, with the payload's conversation and parties and the given content
StoredOne(content) ==
    LET m == last'.message IN
    /\ messagesCollection' = Append(messagesCollection, m)
    /\ \A i \in 1..Len(messagesCollection) : messagesCollection[i]._id # m._id
    /\ m.read = FALSE
    /\ m.conversationId = last'.data.conversationId
    /\ m.senderId = last'.data.senderId
    /\ m.receiverId = last'.data.receiverId
    /\ m.content = content

MarkReadUpdated ==
    \/ last.kind = "mark-read" /\ last.pc = "updateMany.ok"
    \/ last.kind = "POST /mark-read" /\ last.status = 200

\* message m is in conversation c, addressed to u and unread
UnreadFor(m, c, u) == m.conversationId = c /\ m.receiverId = u /\ m.read = FALSE

\* C2: the update of a mark-read of conversation C for user U (Gateway mark-read
\* or POST /mark-read) sets read = TRUE and a non-null readAt on every message of
\* C that is addressed to U and was unread, changes nothing else in them, and
\* leaves every other message (addressed to the other participant, already
\* read, or of another conversation) as it was; no message is added or removed.
C2_MarkReadFrame ==
    [][ MarkReadUpdated' =>
          /\ Len(messagesCollection') = Len(messagesCollection)
          /\ \A i \in 1..Len(messagesCollection) :
                LET m == messagesCollection[i]
                    n == messagesCollection'[i] IN
                IF UnreadFor(m, last'.data.conversationId, last'.data.userId)
                THEN /\ n.read = TRUE
                     /\ n.readAt # NoDate
                     /\ [n EXCEPT !.read = m.read, !.readAt = m.readAt] = m
                ELSE n = m ]_vars

\* a mark-read of "U1_U2" for U2 has just marked a message while an unread
\* message to U1 in the same conversation and an unread message to U2 in
\* another conversation are in the store
C2_Witness ==
    /\ MarkReadUpdated
    /\ last.data = [conversationId |-> ConvU1U2, userId |-> "U2"]
    /\ last.modifiedCount > 0
    /\ \E i \in 1..Len(messagesCollection) :
          /\ messagesCollection[i].conversationId = ConvU1U2
          /\ messagesCollection[i].receiverId = "U2"
          /\ messagesCollection[i].read
    /\ \E i \in 1..Len(messagesCollection) : UnreadFor(messagesCollection[i], ConvU1U2, "U1")
    /\ \E i \in 1..Len(messagesCollection) : UnreadFor(messagesCollection[i], ConvU2U1, "U2")

\* the step just taken ended a send-message handler after its last emission
SendDone == last.kind = "send-message" /\ last.pc = "done"

\* the notification of the send that just ended is in the store, unread, for
\* the receiver of the payload
NotificationPersisted ==
    /\ last.notification._id # NoId
    /\ last.notification.userId = last.data.receiverId
    /\ last.notification.read = FALSE
    /\ \E i \in 1..Len(notificationsCollection) :
          notificationsCollection[i] = last.notification

\* C3: a send-message for receiver R that is processed while the presence
\* registry has no entry for R emits no new-notification and no
\* notification-count, and its Notification for R is persisted with read = FALSE.
C3_NoEntryNoDirectEmit ==
    (SendDone /\ ~MapHas(onlineUsers, last.data.receiverId)) =>
        /\ EventsOf(last, "new-notification") = {}
        /\ EventsOf(last, "notification-count") = {}
        /\ NotificationPersisted

\* a send to U2 has ended while the registry holds U1's connection only
C3_Witness ==
    /\ SendDone
    /\ last.data.receiverId = "U2"
    /\ ~MapHas(onlineUsers, "U2")
    /\ MapGet(onlineUsers, "U1") = last.sock
    /\ EventsOf(last, "receive-message") # {}

\* every document of the two stores has its own _id, below the next one
StoreIds ==
    { messagesCollection[i]._id : i \in 1..Len(messagesCollection) }
        \cup { notificationsCollection[i]._id : i \in 1..Len(notificationsCollection) }

\* the send that just ended created exactly two documents, its message and its
\* notification: they hold the two latest _ids, each once, in their stores
PersistedOneEach ==
    /\ Cardinality(StoreIds) = Len(messagesCollection) + Len(notificationsCollection)
    /\ last.notification._id = nextId - 1
    /\ last.message._id = nextId - 2
    /\ Cardinality({ i \in 1..Len(messagesCollection) :
                       messagesCollection[i] = last.message }) = 1
    /\ Cardinality({ i \in 1..Len(notificationsCollection) :
                       notificationsCollection[i] = last.notification }) = 1
    /\ \A i \in 1..Len(notificationsCollection) :
          notificationsCollection[i]._id # last.message._id
    /\ \A i \in 1..Len(messagesCollection) :
          messagesCollection[i]._id # last.notification._id
    /\ last.message.content = Hi /\ last.message.read = FALSE
    /\ last.message.senderId = "U1" /\ last.message.receiverId = "U2"
    /\ last.message.conversationId = ConvU1U2

\* U1 is registered on the connection that sent, U2 on another live connection
\* that announced U2, and the sender is the only member of room "U1_U2"
C4_Scenario ==
    /\ SendDone
    /\ last.data = SendPayload(ConvU1U2, "U1", "U2", Hi)
    /\ MapGet(onlineUsers, "U1") = last.sock
    /\ NotifRoom("U1") \in rooms[last.sock]
    /\ MapGet(onlineUsers, "U2") \in SocketIds \ {last.sock}
    /\ sockets[MapGet(onlineUsers, "U2")] = "connected"
    /\ NotifRoom("U2") \in rooms[MapGet(onlineUsers, "U2")]
    /\ RoomMembers(ConvU1U2) = {last.sock}

\* C4: in that scenario the send yields exactly four emissions: one
\* new-notification to U2's registered handle, one notification-count (the
\* number of U2's unread notifications) to U2's notification room, one
\* receive-message to room "U1_U2" (the sender alone), one message-sent to the
\* sender; and exactly one message and one notification for U2 are persisted.
C4_SendYield ==
    C4_Scenario =>
        LET h == MapGet(onlineUsers, "U2") IN
        /\ Len(last.out) = 4
        /\ \E i \in 1..4 : last.out[i] = [event |-> "new-notification", to |-> <<h>>,
                                          rcpt |-> {h}, data |-> last.notification]
        /\ \E i \in 1..4 : /\ last.out[i].event = "notification-count"
                           /\ last.out[i].to = NotifRoom("U2")
                           /\ h \in last.out[i].rcpt
                           /\ last.out[i].data = getUnreadCount("U2")
        /\ \E i \in 1..4 : /\ last.out[i].event = "receive-message"
                           /\ last.out[i].to = ConvU1U2
                           /\ last.out[i].data = last.message
        /\ \E i \in 1..4 : last.out[i] = [event |-> "message-sent", to |-> <<last.sock>>,
                                          rcpt |-> {last.sock}, data |-> last.message]
        /\ PersistedOneEach
        /\ NotificationPersisted

\* the scenario has happened, with U2's connection in no conversation room
C4_Witness ==
    /\ C4_Scenario
    /\ rooms[MapGet(onlineUsers, "U2")] = {NotifRoom("U2")}
    /\ Len(last.out) = 4

\* the message of the send that just ended is in the store
MessagePersisted ==
    /\ last.message._id # NoId
    /\ \E i \in 1..Len(messagesCollection) : messagesCollection[i] = last.message

\* user u has disconnected: a connection that announced u has closed and no
\* live connection is announced as u
HasDisconnected(u) ==
    /\ u \in departed
    /\ \A s \in SocketIds : sockets[s] = "connected" => NotifRoom(u) \notin rooms[s]

\* the step just taken ended a user-online handler with its emission
AnnounceDone == last.kind = "user-online" /\ last.pc = "done"

\* C5: a send to a user who has disconnected persists the message and the
\* notification and emits neither new-notification nor notification-count; and
\* the notification-count a user-online emits back to the announcing connection
\* is the number of unread notifications stored for that user.
C5_SendAfterDisconnect ==
    /\ (SendDone /\ HasDisconnected(last.data.receiverId)) =>
          /\ MessagePersisted
          /\ NotificationPersisted
          /\ EventsOf(last, "new-notification") = {}
          /\ EventsOf(last, "notification-count") = {}
    /\ AnnounceDone =>
          /\ Cardinality(EventsOf(last, "notification-count")) = 1
          /\ \A i \in EventsOf(last, "notification-count") :
                /\ last.out[i].to = <<last.sock>>
                /\ last.out[i].data = getUnreadCount(last.data.userId)

\* the step just taken ended a mark-all-notifications-read handler with its emission
MarkAllDone == last.kind = "mark-all-notifications-read" /\ last.pc = "done"

\* C6: when mark-all-notifications-read for user U emits its notification-count,
\* the count is 0 and the number of unread notifications stored for U at that
\* moment is 0 as well, whatever other handlers ran in between.
C6_MarkAllCountIsStoreCount ==
    MarkAllDone =>
        /\ Cardinality(EventsOf(last, "notification-count")) = 1
        /\ \A i \in EventsOf(last, "notification-count") :
              /\ last.out[i].to = NotifRoom(last.data.userId)
              /\ last.out[i].data = 0
        /\ getUnreadCount(last.data.userId) = 0

\* the step just taken is the synchronous part of a user-online
Announced == last.kind = "user-online" /\ last.pc = "count.wait"

\* C7: the registry holds at most one handle per user; a user-online of user U
\* on connection S makes S the handle of U and changes no other entry, and the
\* handle of a user becomes S in no other way; a send-message emits at most one
\* new-notification, to the handle registered for the receiver and to no other
\* connection of that user.
C7_LastWriterWins ==
    [][ /\ \A i, j \in 1..Len(onlineUsers') :
              onlineUsers'[i].userId = onlineUsers'[j].userId => i = j
        /\ Announced' =>
              /\ MapGet(onlineUsers', last'.data.userId) = last'.sock
              /\ \A u \in UserIds \ {last'.data.userId} :
                    MapGet(onlineUsers', u) = MapGet(onlineUsers, u)
        /\ \A u \in UserIds :
              (MapGet(onlineUsers', u) \notin {NoSocket, MapGet(onlineUsers, u)})
                 => (Announced' /\ last'.data.userId = u
                        /\ last'.sock = MapGet(onlineUsers', u))
        /\ last'.kind = "send-message" =>
              /\ Cardinality(EventsOf(last', "new-notification")) <= 1
              /\ \A i \in EventsOf(last', "new-notification") :
                    /\ last'.out[i].to = <<MapGet(onlineUsers', last'.data.receiverId)>>
                    /\ last'.out[i].rcpt \subseteq
                          {MapGet(onlineUsers', last'.data.receiverId)} ]_vars

\* a send to U2 has ended while two live connections are announced as U2: the
\* new-notification reached the registered one and not the other
C7_Witness ==
    /\ SendDone
    /\ \E g, h \in SocketIds :
          /\ g # h
          /\ sockets[g] = "connected" /\ NotifRoom("U2") \in rooms[g]
          /\ sockets[h] = "connected" /\ NotifRoom("U2") \in rooms[h]
          /\ MapGet(onlineUsers, "U2") = h
          /\ \E i \in EventsOf(last, "new-notification") : last.out[i].rcpt = {h}

\* the step is the disconnect of the connection last'.sock
Disconnecting ==
    /\ last'.kind = "disconnect"
    /\ sockets[last'.sock] = "connected"
    /\ sockets'[last'.sock] = "disconnected"

\* socket s is the value of some entry of the registry
Registered(s) == \E i \in 1..Len(onlineUsers) : onlineUsers[i].socketId = s

\* C8: the disconnect of a connection whose handle is not a value of the
\* registry leaves the registry unchanged and emits nothing (no
\* user-status-changed offline); the handler ends normally.
C8_StaleDisconnectIsNoOp ==
    [][ (Disconnecting /\ ~Registered(last'.sock)) =>
            /\ onlineUsers' = onlineUsers
            /\ last'.out = <<>>
            /\ last'.pc = "done" ]_vars

\* a connection that had announced U1 and was overwritten has just
\* disconnected: the newer connection is still registered for U1
C8_Witness ==
    /\ last.kind = "disconnect"
    /\ last.out = <<>>
    /\ "U1" \in departed
    /\ MapGet(onlineUsers, "U1") \in SocketIds \ {last.sock}
    /\ sockets[MapGet(onlineUsers, "U1")] = "connected"

\* the emissions of a disconnect are one offline broadcast for user u
OfflineOnce(u) ==
    /\ Len(last'.out) = 1
    /\ last'.out[1].event = "user-status-changed"
    /\ last'.out[1].data = [userId |-> u, status |-> "offline"]

C10_SenderExcluded ==
    SendDone =>
        /\ Cardinality(EventsOf(last, "receive-message")) = 1
        /\ \A i \in EventsOf(last, "receive-message") :
              last.out[i].rcpt = RoomMembers(last.data.conversationId) \ {last.sock}
        /\ \E i \in EventsOf(last, "message-sent") : last.out[i].rcpt = {last.sock}

\* C16: for all identities A and B, the conversation identifier computed for
\* (A, B) equals the one computed for (B, A), and it holds exactly A and B.
C16_CanonicalSymmetric ==
    (last.kind = "GET /conversations" /\ last.pc = "done") =>
        /\ last.data.conversationId = CanonicalId(last.data.partner, last.data.userId)
        /\ { last.data.conversationId[i] : i \in 1..Len(last.data.conversationId) }
              = {last.data.userId, last.data.partner}
        /\ Len(last.data.conversationId) = 2

\* the identifier of ("U2", "U10") has been computed: the sort exchanged the two
C16_Witness ==
    /\ last.kind = "GET /conversations" /\ last.pc = "done"
    /\ last.data.userId = "U2" /\ last.data.partner = "U10"
    /\ last.data.conversationId = <<"U10", "U2">>

\* the send-message handler that took the step has failed at the insert of its
\* message: it is in its catch, or past it, without a stored message
MessageInsertFailed ==
    /\ last.kind = "send-message"
    /\ last.pc \in {"error", "failed"}
    /\ last.message = NoMessage

\* C11: when the insert of the Message of a send-message fails, the handler
\* writes nothing to either store (no message by a retry, no Notification), and
\* its whole output is one message-error to the originating connection alone.
C11_InsertFailureIsReported ==
    [][ MessageInsertFailed' =>
          /\ messagesCollection' = messagesCollection
          /\ notificationsCollection' = notificationsCollection
          /\ last'.notification = NoNotification
          /\ IF last'.pc = "error"
             THEN last'.out = <<>>
             ELSE /\ Len(last'.out) = 1
                  /\ last'.out[1].event = "message-error"
                  /\ last'.out[1].to = <<last'.sock>>
                  /\ last'.out[1].rcpt \subseteq {last'.sock} ]_vars

\* a send-message whose insert failed has ended, and its connection, still
\* open, got the message-error
C11_Witness ==
    /\ MessageInsertFailed
    /\ last.pc = "failed"
    /\ \E i \in EventsOf(last, "message-error") : last.out[i].rcpt = {last.sock}
    /\ Len(messagesCollection) = Len(InitialMessages)

\* the events by which the Gateway reports an error to a client
ErrorEvents == {"message-error"}

\* a Gateway handler has ended after one of its store calls failed
StoreCallFailed ==
    /\ last.kind \in {"user-online", "send-message", "mark-read",
                      "mark-notification-read", "mark-all-notifications-read"}
    /\ last.pc \in {"failed", "rejected"}

\* C12: a Gateway handler one of whose store calls failed has emitted an error
\* event to its own connection, and no error event to anyone else.
C12_FailureIsReported ==
    StoreCallFailed =>
        /\ \E i \in 1..Len(last.out) :
              last.out[i].event \in ErrorEvents /\ last.out[i].to = <<last.sock>>
        /\ \A i \in 1..Len(last.out) :
              last.out[i].event \in ErrorEvents => last.out[i].rcpt \subseteq {last.sock}

\* the payload of a send lacks one of its four required fields
Incomplete(data) ==
    \/ data.conversationId = <<>>
    \/ Falsy(data.senderId)
    \/ Falsy(data.receiverId)
    \/ data.content = AbsentContent

\* C13: no step of a send (Gateway send-message or POST /send) whose payload
\* lacks conversationId, senderId, receiverId or content writes to the message
\* store or to the notification store.
C13_IncompleteSendWritesNothing ==
    [][ (last'.kind \in SendKinds /\ Incomplete(last'.data)) =>
            /\ messagesCollection' = messagesCollection
            /\ notificationsCollection' = notificationsCollection ]_vars

\* the requests and events that address a conversation in the name of a user
ConversationKinds ==
    {"GET /conversation", "GET /search", "POST /send", "send-message", "mark-read"}

\* the user in whose name the request or event acts
ActingUser(rec) ==
    IF rec.kind \in SendKinds THEN rec.data.senderId ELSE rec.data.userId

\* the acting user is not one of two identities of the conversation id
Outsider(rec) ==
    \/ Len(rec.data.conversationId) # 2
    \/ ActingUser(rec) \notin {rec.data.conversationId[1], rec.data.conversationId[2]}

\* C14: no step of a history fetch, search, send or mark-read made in the name
\* of a user who is not one of the two participants of the addressed
\* conversation changes the message store, and none returns messages.
C14_OutsiderIsRejected ==
    [][ (last'.kind \in ConversationKinds /\ Outsider(last')) =>
            /\ messagesCollection' = messagesCollection
            /\ last'.returned = <<>> ]_vars

\* C15: every message a send persists, by the Gateway or by POST /send, has
\* the canonical identifier of its senderId and receiverId as conversationId.
C15_StoredIdIsCanonical ==
    [][ (GatewayInserted' \/ RestInserted') =>
            last'.message.conversationId =
                CanonicalId(last'.message.senderId, last'.message.receiverId) ]_vars

\* the messages of conversation c that are addressed to u and unread
Pending(coll, c, u) == { i \in 1..Len(coll) : UnreadFor(coll[i], c, u) }

\* C17: every mark-read update that the store executes succeeds (POST
\* /mark-read answers 200, the Gateway handler goes on to its emit) and leaves
\* no unread message of the conversation addressed to the user; it modifies as
\* many messages as were pending, so an update that runs after another one for
\* the same conversation and user, with no message stored in between, modifies
\* zero messages and leaves the store as the first one left it.
C17_SecondMarkReadIsNoOp ==
    [][ MarkReadUpdated' =>
          LET c == last'.data.conversationId
              u == last'.data.userId IN
          /\ last'.pc \in {"updateMany.ok", "done"}
          /\ last'.modifiedCount = Cardinality(Pending(messagesCollection, c, u))
          /\ Pending(messagesCollection', c, u) = {}
          /\ Pending(messagesCollection, c, u) = {} =>
                (last'.modifiedCount = 0 /\ messagesCollection' = messagesCollection) ]_vars

\* two mark-reads of "U1_U2" for the same user are in progress at once: the
\* update of one has modified a message and waits for its emit, the update of
\* the other has just run and modified none
C17_Witness ==
    /\ MarkReadUpdated
    /\ last.modifiedCount = 0
    /\ \E t \in 1..Len(tasks) :
          /\ tasks[t].kind = "mark-read"
          /\ tasks[t].pc = "updateMany.ok"
          /\ tasks[t].data = last.data
          /\ tasks[t].modifiedCount > 0

\* the send-message that just ended stored its message and then failed before
\* its Notification was created (the insert of the notification, or the lookup
\* of the sender that precedes it, was rejected)
NotificationFailed ==
    /\ last.kind = "send-message"
    /\ last.pc = "failed"
    /\ last.message._id # NoId
    /\ last.notification._id = NoId

\* C18: a send-message whose Message was persisted and whose Notification could
\* not be created leaves the message in the store and has emitted it as
\* receive-message to the conversation room.
C18_DeliveredWithoutNotification ==
    NotificationFailed =>
        /\ FindMessage(messagesCollection, last.message._id) # 0
        /\ \E i \in EventsOf(last, "receive-message") :
              /\ last.out[i].to = last.data.conversationId
              /\ last.out[i].data = last.message

\* document n is document m with its read flag gone from false to true and
\* readAt stamped, and nothing else changed
BecameRead(m, n) ==
    /\ ~m.read
    /\ n.read
    /\ n.readAt # NoDate
    /\ n = [m EXCEPT !.read = TRUE, !.readAt = n.readAt]

\* the step is taken by a delete request of the sender of message m
DeletedBySender(m) ==
    /\ last'.kind = "DELETE /message"
    /\ last'.data.messageId = m._id
    /\ last'.data.userId = m.senderId

\* the step is taken by a delete request for a stored message of another sender
DeleteByAnotherUser ==
    /\ last'.kind = "DELETE /message"
    /\ FindMessage(messagesCollection, last'.data.messageId) # 0
    /\ messagesCollection[FindMessage(messagesCollection, last'.data.messageId)].senderId
          # last'.data.userId

SingleNotificationKinds == {"mark-notification-read", "PUT /mark-read", "DELETE /notification"}

\* notification n of the store before the step is, after it, still stored as it was
Kept(n) ==
    \E j \in 1..Len(notificationsCollection') : notificationsCollection'[j] = n

\* id N is the id of a stored notification owned by a user other than U
BelongsToAnother(N, U) ==
    \E i \in 1..Len(notificationsCollection) :
        /\ notificationsCollection[i]._id = N
        /\ notificationsCollection[i].userId # U

\* C20: a step of a single-notification operation given notificationId N and
\* userId U keeps every stored notification other than the one with id N owned
\* by U and adds none; when N belongs to another user the notification store is
\* unchanged; a step of clear-all for U keeps every notification not owned by U.
C20_OnlyTheOwnersNotification ==
    [][ /\ last'.kind \in SingleNotificationKinds =>
              LET N == last'.data.notificationId
                  U == last'.data.userId IN
              /\ Len(notificationsCollection') <= Len(notificationsCollection)
              /\ \A i \in 1..Len(notificationsCollection) :
                    LET n == notificationsCollection[i] IN
                    ~(n._id = N /\ n.userId = U) => Kept(n)
              /\ BelongsToAnother(N, U) => notificationsCollection' = notificationsCollection
        /\ last'.kind = "DELETE /clear-all" =>
              /\ Len(notificationsCollection') <= Len(notificationsCollection)
              /\ \A i \in 1..Len(notificationsCollection) :
                    notificationsCollection[i].userId # last'.data.userId
                        => Kept(notificationsCollection[i]) ]_vars

\* a single-notification operation named a notification of another user, its
\* write was executed by the store, and the notification is still stored unread
C20_Witness ==
    /\ last.kind \in {"PUT /mark-read", "DELETE /notification"}
    /\ last.status = 404
    /\ last.data.notificationId # NoId
    /\ \E i \in 1..Len(notificationsCollection) :
          /\ notificationsCollection[i]._id = last.data.notificationId
          /\ notificationsCollection[i].userId # last.data.userId
          /\ ~notificationsCollection[i].read

\* C21: a typing event is emitted once, as user-typing with the payload's userId
\* and isTyping, to exactly the connections joined to the conversation room
\* other than the one that sent it, and the step changes neither the message
\* store, the notification store nor the presence registry.
C21_TypingReachesTheOthers ==
    [][ last'.kind = "typing" =>
          /\ Len(last'.out) = 1
          /\ last'.out[1].event = "user-typing"
          /\ last'.out[1].data = [userId |-> last'.data.userId,
                                  isTyping |-> last'.data.isTyping]
          /\ last'.out[1].rcpt =
                { x \in SocketIds : /\ sockets'[x] = "connected"
                                    /\ last'.data.conversationId \in rooms'[x]
                                    /\ x # last'.sock }
          /\ messagesCollection' = messagesCollection
          /\ notificationsCollection' = notificationsCollection
          /\ onlineUsers' = onlineUsers ]_vars

\* a connection joined to the room sent typing; another member received it and
\* a third connection, outside the room, did not
C21_Witness ==
    /\ last.kind = "typing"
    /\ last.data.conversationId \in rooms[last.sock]
    /\ \E x \in SocketIds \ {last.sock} : x \in last.out[1].rcpt
    /\ \E y \in SocketIds \ {last.sock} :
          sockets[y] = "connected" /\ y \notin last.out[1].rcpt

\* C22: a join-conversation of a room the connection is already in, and a
\* leave-conversation of a room it is not in, leave the membership of every
\* room as it was; after join(c) the connection is a member of c, after
\* leave(c) it is not, no other membership changes, and the handler ends
\* without an error and without emitting.
C22_JoinLeaveIdempotent ==
    [][ last'.kind \in {"join-conversation", "leave-conversation"} =>
          LET s == last'.sock
              c == last'.data.conversationId IN
          /\ last'.pc = "done" /\ last'.out = <<>>
          /\ (last'.kind = "join-conversation" /\ c \in rooms[s]) => rooms' = rooms
          /\ (last'.kind = "leave-conversation" /\ c \notin rooms[s]) => rooms' = rooms
          /\ last'.kind = "join-conversation" => c \in rooms'[s]
          /\ last'.kind = "leave-conversation" => c \notin rooms'[s]
          /\ \A x \in SocketIds : rooms'[x] \ {c} = rooms[x] \ {c}
          /\ \A x \in SocketIds \ {s} : rooms'[x] = rooms[x] ]_vars

\* a connection has just handled leave-conversation for one conversation room
\* and is a member of the other one, which the leave did not touch
C22_Witness ==
    /\ last.kind = "leave-conversation"
    /\ last.data.conversationId \notin rooms[last.sock]
    /\ rooms[last.sock] \cap ConversationIds # {}

\* suspended handler t is the one that takes the step
Acting(t) ==
    /\ tasks[t].kind = last'.kind
    /\ tasks[t].sock = last'.sock
    /\ tasks[t].data = last'.data
    /\ \/ tasks' = RemoveAt(tasks, t)
       \/ tasks' = [tasks EXCEPT ![t] = last']

\* suspended handler i is a send-message that arrived earlier than handler t on
\* the same connection, stored its message first and has not yet come to emit it
EarlierSendPending(i, t) ==
    /\ i < t
    /\ tasks[i].kind = "send-message"
    /\ tasks[i].sock = tasks[t].sock
    /\ tasks[i].message._id # NoId
    /\ tasks[i].message._id < tasks[t].message._id
    /\ tasks[i].pc # "error"
    /\ EventsOf(tasks[i], "receive-message") = {}

\* C23: when a connection sent send-message m1 and then m2, and m1 was
\* persisted before m2, the receive-message of m2 is not emitted while the
\* receive-message of m1 has not been.
C23_DeliveredInOrderReceived ==
    [][ \A t \in Tasks :
          ( /\ Acting(t)
            /\ last'.kind = "send-message"
            /\ EventsOf(tasks[t], "receive-message") = {}
            /\ EventsOf(last', "receive-message") # {} )
          => ~ \E i \in Tasks : EarlierSendPending(i, t) ]_vars

\* the _id of the first document stored after the start
FirstNewId == Len(InitialMessages) + Len(InitialNotifications) + 1

\* message m was stored for payload d as the payload gives it
StoredAsGiven(m, d) ==
    /\ m._id >= FirstNewId
    /\ m.conversationId = d.conversationId
    /\ m.senderId = d.senderId
    /\ m.receiverId = d.receiverId
    /\ m.content = d.content
    /\ ~m.read

\* C24: when POST /send has been answered for a payload for which a Gateway
\* send-message stored a Message, the REST request too has stored a Message,
\* with the same conversationId, senderId, receiverId and content and unread;
\* the two paths do not differ in whether and what they persist.
C24_BothPathsPersistTheSame ==
    ( /\ last.kind = "POST /send"
      /\ last.pc = "done"
      /\ last.status # 500
      /\ \E i \in 1..Len(messagesCollection) :
            /\ messagesCollection[i]._id # last.message._id
            /\ StoredAsGiven(messagesCollection[i], last.data) )
    => /\ last.status = 201
       /\ StoredAsGiven(last.message, last.data)

\* a send-message handler of connection s is suspended and s has disconnected
Orphaned(s) ==
    /\ sockets[s] = "disconnected"
    /\ \E t \in Tasks : tasks[t].kind = "send-message" /\ tasks[t].sock = s

\* the notification of the send is in the store, for the receiver, unread or read
NotificationStored(rec) ==
    /\ rec.notification._id # NoId
    /\ rec.notification.userId = rec.data.receiverId
    /\ \E i \in 1..Len(notificationsCollection) :
          notificationsCollection[i]._id = rec.notification._id

\* a send-message handler of connection s has run to its end: its message and
\* its notification are stored, and when the registry held a handle for the
\* receiver, new-notification went to that handle
Completed(s) ==
    /\ last.kind = "send-message"
    /\ last.sock = s
    /\ last.pc = "done"
    /\ FindMessage(messagesCollection, last.message._id) # 0
    /\ NotificationStored(last)
    /\ last.receiverSocketId # NoSocket =>
          \E i \in EventsOf(last, "new-notification") :
              /\ last.out[i].to = <<last.receiverSocketId>>
              /\ last.out[i].data = last.notification
              /\ last.out[i].rcpt \subseteq {last.receiverSocketId}

\* C25: a send-message handler that is suspended at a store call when its
\* connection disconnects still runs to its end: eventually its Message and its
\* Notification are persisted, and new-notification has gone to the handle the
\* registry held for the receiver.
C25_SendSurvivesDisconnect ==
    \A s \in LiveClients : Orphaned(s) ~> Completed(s)

\* the handler of a connection that has disconnected has run to its end, and
\* the receiver's live connection got new-notification
C25_Witness ==
    /\ \E s \in LiveClients : Completed(s) /\ sockets[s] = "disconnected"
    /\ \E i \in EventsOf(last, "new-notification") :
          /\ last.out[i].rcpt = {last.receiverSocketId}
          /\ sockets[last.receiverSocketId] = "connected"

\* C26: a step changes the presence registry only when it is the synchronous
\* part of a user-online handler or a disconnect handler; every step of every
\* other Gateway handler and of every REST request leaves it unchanged; and a
\* disconnect handler does its scan and its removal in the one step it takes,
\* never suspended with other handlers running in between.
C26_RegistryWrittenByTwoHandlers ==
    [][ /\ onlineUsers' # onlineUsers =>
              \/ last'.kind = "user-online" /\ last'.pc = "count.wait"
              \/ last'.kind = "disconnect"
        /\ last'.kind = "disconnect" => last'.pc = "done"
        /\ \A t \in 1..Len(tasks') : tasks'[t].kind # "disconnect" ]_vars

\* a connection has closed while another handler was suspended at a store
\* call: its entry is gone from the registry and offline was broadcast
C26_Witness ==
    /\ last.kind = "disconnect"
    /\ EventsOf(last, "user-status-changed") # {}
    /\ \A i \in 1..Len(onlineUsers) : onlineUsers[i].socketId # last.sock
    /\ \E t \in Tasks : tasks[t].kind \notin {"user-online", "disconnect"}

\* connection s announced user u and no other connection has announced u
\* since: the registry maps u to the handle of s
AnnouncedAndCurrent(s, u) ==
    /\ sockets[s] = "connected"
    /\ NotifRoom(u) \in rooms[s]
    /\ MapGet(onlineUsers, u) = s

\* C27: when a connection that announced user u disconnects and no other
\* connection has announced u in between, the lifecycle of u closes: the
\* user-status-changed offline event for u goes to every other live connection
\* (which got the online event when u was announced) and the registry, which
\* has held the entry of u since the announcement, holds it no longer.
C27_LifecycleCloses ==
    [][ \A s \in SocketIds, u \in UserIds :
          (AnnouncedAndCurrent(s, u) /\ sockets'[s] = "disconnected") =>
              /\ ~MapHas(onlineUsers', u)
              /\ \E i \in EventsOf(last', "user-status-changed") :
                    /\ last'.out[i].data = [userId |-> u, status |-> "offline"]
                    /\ last'.out[i].rcpt =
                          { x \in SocketIds : sockets'[x] = "connected" } ]_vars

\* the emissions made in the step: those of the handler's output that were not
\* in it before the step
EmittedNow ==
    IF \E t \in Tasks : Acting(t)
    THEN LET t == CHOOSE x \in Tasks : Acting(x) IN
         { last'.out[i] : i \in (Len(tasks[t].out) + 1)..Len(last'.out) }
    ELSE { last'.out[i] : i \in 1..Len(last'.out) }

\* C28: a connection only moves forward. It does not return from connected to
\* unconnected, and once it is disconnected it stays disconnected, it is a
\* member of no room, no emission made afterwards has it among its recipients,
\* no later step registers its handle for a user, and no user-online is
\* handled for it any more.
C28_DisconnectedIsFinal ==
    [][ \A s \in SocketIds :
          /\ sockets[s] # "none" => sockets'[s] # "none"
          /\ sockets'[s] # "connected" => rooms'[s] = {}
          /\ sockets[s] = "disconnected" =>
                /\ sockets'[s] = "disconnected"
                /\ \A e \in EmittedNow : s \notin e.rcpt
                /\ \A u \in UserIds :
                      MapGet(onlineUsers', u) = s => MapGet(onlineUsers, u) = s
                /\ ~(last'.kind = "user-online" /\ last'.sock = s
                                                /\ last'.pc = "count.wait") ]_vars

\* a send-message handler has run to its end after its connection disconnected:
\* its message-sent, addressed to that connection, reached nobody
C28_Witness ==
    /\ last.kind = "send-message"
    /\ last.pc = "done"
    /\ sockets[last.sock] = "disconnected"
    /\ rooms[last.sock] = {}
    /\ \E i \in EventsOf(last, "message-sent") :
          last.out[i].to = <<last.sock>> /\ last.out[i].rcpt = {}

\* C29: every handle stored in the presence registry belongs to a connection
\* that is still connected.
C29_RegistryHoldsLiveHandles ==
    \A i \in 1..Len(onlineUsers) : sockets[onlineUsers[i].socketId] = "connected"

\* the step is the updateMany of a history fetch, executed by the store
FetchUpdated(t) ==
    /\ Acting(t)
    /\ tasks[t].kind = "GET /conversation"
    /\ tasks[t].pc = "updateMany.wait"
    /\ last'.status = 200

\* message m is on the page the fetch answers with
Returned(rec, m) == \E j \in 1..Len(rec.returned) : rec.returned[j]._id = m._id

\* C30: the update of a history fetch of conversation C by participant U marks
\* as read every message of C addressed to U that is unread when the update
\* runs, whether or not it is on the page that the find returned, and changes
\* no other message; the answer is the page as the find returned it.
C30_FetchMarksBeyondThePage ==
    [][ \A t \in Tasks : FetchUpdated(t) =>
          LET C == last'.data.conversationId
              U == last'.data.userId IN
          /\ last'.returned = tasks[t].returned
          /\ Len(messagesCollection') = Len(messagesCollection)
          /\ \A i \in 1..Len(messagesCollection) :
                IF i \in Pending(messagesCollection, C, U)
                THEN BecameRead(messagesCollection[i], messagesCollection'[i])
                ELSE messagesCollection'[i] = messagesCollection[i] ]_vars

\* a whole-conversation fetch has been answered, and a message addressed to the
\* user is read although it is not on the answered page: it was stored between
\* the find and the update of the fetch
C30_Witness ==
    /\ last.kind = "GET /conversation"
    /\ last.status = 200
    /\ last.data.before = Later /\ last.data.limit = DefaultLimit
    /\ \E i \in 1..Len(messagesCollection) :
          LET m == messagesCollection[i] IN
          /\ m.conversationId = last.data.conversationId
          /\ m.receiverId = last.data.userId
          /\ m.read
          /\ m._id >= FirstNewId
          /\ ~Returned(last, m)

====
